---- MODULE Spec2Model ----
(***************************************************************************)
(* Caching and generation orchestration of the Gemini text-to-speech       *)
(* add-on: CacheManager (services/cache_manager.py), AudioGenerator        *)
(* (services/audio_generator.py), the exception mapping                    *)
(* (core/exceptions.py) and the cache data model (core/models.py).         *)
(*                                                                         *)
(* Conventions                                                             *)
(*  - A Python dict is an insertion-ordered sequence of entries with       *)
(*    unique keys (metadata.files is iterated in insertion order).         *)
(*  - The md5 digest of the canonical JSON of the key fields is modelled   *)
(*    by the canonical record itself (the digest is taken as injective);   *)
(*    the first 8 hex characters of the digest are a lossy projection of   *)
(*    it (Prefix8).                                                        *)
(*  - Audio bytes are identified by the API call that produced them and    *)
(*    by their length.                                                     *)
(*  - A message string is a tuple of string fragments, so that             *)
(*    f"prefix: {str(e)}" is <<"prefix">> \o Str(e).                       *)
(*  - Every call of time.time() inside one operation returns now.          *)
(***************************************************************************)
EXTENDS Integers, Sequences, FiniteSets, TLC

\* ------------------------------------------------------------------------
\* Bounds of the model
\* ------------------------------------------------------------------------
MaxTime == 1
MaxFiles == 2
MaxTemps == 1

\* ------------------------------------------------------------------------
\* Program constants
\* ------------------------------------------------------------------------
DEFAULT_FALLBACK_MODEL == "flash_tts"
UNIFIED_TIMEOUT == 45
TRADITIONAL_TIMEOUT == 30
MIN_AUDIO_SIZE == 1000
MAX_AUDIO_SIZE == 50 * 1024 * 1024
CACHE_VERSION == "2.0"
TEMP_FILE_PREFIX == ".cache_tmp_"
TEMP_FILE_CLEANUP_HOURS == 1

ModelDefinitions ==
    [flash_unified |-> [model_id |-> "gemini-2.5-flash-preview-06-05", mode |-> "unified"],
     pro_unified   |-> [model_id |-> "gemini-2.5-pro-preview-06-05",   mode |-> "unified"],
     flash_tts     |-> [model_id |-> "gemini-2.5-flash-preview-tts",   mode |-> "traditional"],
     pro_tts       |-> [model_id |-> "gemini-2.5-pro-preview-tts",     mode |-> "traditional"]]

\* ------------------------------------------------------------------------
\* Input domains
\* ------------------------------------------------------------------------
Texts == {"Hello world"}
Modes == {"unified", "traditional"}
ConfigModels == {"flash_unified", "flash_tts"}
Budgets == {128}

\* TTSConfig: the fields the generator and the cache read.
DefaultConfig ==
    [model |-> "flash_unified", voice |-> "Zephyr", temperature |-> 0,
     thinking_budget |-> 0, enable_fallback |-> TRUE, cache_days |-> 30,
     preprocessing_style |-> "natural", enable_style_control |-> TRUE]

Configs ==
    {[DefaultConfig EXCEPT !.model = m, !.thinking_budget = b, !.enable_fallback = f] :
        m \in ConfigModels, b \in Budgets, f \in BOOLEAN}

\* AudioGenerationRequest (the config reference of the request is not read
\* by the generator, which uses self.config).
Requests == [text : Texts, processing_mode : Modes, use_cache : BOOLEAN]


\* ------------------------------------------------------------------------
\* Exceptions (core/exceptions.py)
\* ------------------------------------------------------------------------
\* The class hierarchy: the direct base class of each exception class.
BaseClass ==
    [TTSException |-> "Exception", APIException |-> "TTSException",
     InvalidAPIKeyException |-> "APIException", RateLimitedException |-> "APIException",
     BadRequestException |-> "APIException", NetworkException |-> "TTSException",
     TimeoutException |-> "NetworkException", ConnectionException |-> "NetworkException",
     CacheException |-> "TTSException", CacheWriteException |-> "CacheException",
     AudioException |-> "TTSException", AudioSizeException |-> "AudioException",
     SecurityException |-> "TTSException", RuntimeError |-> "Exception",
     OSError |-> "Exception", Exception |-> "Exception"]

RECURSIVE IsInstance(_, _)
IsInstance(cls, base) ==
    IF cls = base THEN TRUE
    ELSE IF cls = "Exception" THEN FALSE
    ELSE IsInstance(BaseClass[cls], base)

\* TTSException.__init__: user_message defaults to the message.
TTSException(cls, message, error_code) ==
    [cls |-> cls, message |-> message, error_code |-> error_code,
     user_message |-> message, status_code |-> 0]

\* TTSException.__str__
Str(e) == IF e.error_code # "" THEN <<"[" \o e.error_code \o "]">> \o e.message ELSE e.message

\* APIException.__init__: a user message chosen by status code.
APIException(cls, message, status_code, error_code) ==
    [TTSException(cls, message, error_code) EXCEPT
        !.status_code = status_code,
        !.user_message =
            IF status_code = 403 THEN <<"Invalid API key. Check your configuration.">>
            ELSE IF status_code = 429 THEN <<"Rate limited. Wait a moment and try again.">>
            ELSE IF status_code = 400 THEN <<"Invalid request. Check your text and settings.">>
            ELSE message]

InvalidAPIKeyException(message) == APIException("InvalidAPIKeyException", message, 403, "INVALID_API_KEY")
RateLimitedException(message) == APIException("RateLimitedException", message, 429, "RATE_LIMITED")
BadRequestException(message) == APIException("BadRequestException", message, 400, "BAD_REQUEST")

NetworkException(cls, message, error_code, timeout, mentionsConnection) ==
    [TTSException(cls, message, error_code) EXCEPT
        !.user_message =
            IF timeout THEN <<"Network timeout. Check your connection.">>
            ELSE IF mentionsConnection THEN <<"Connection failed. Check your internet.">>
            ELSE <<"Network error. Check your connection.">>]

AudioException(cls, message, error_code) ==
    [TTSException(cls, message, error_code) EXCEPT !.user_message = <<"Audio processing error.">>]

AudioSizeException(message) ==
    [AudioException("AudioSizeException", message, "AUDIO_SIZE_ERROR") EXCEPT
        !.user_message = <<"Audio generation failed - invalid audio data received">>]

CacheWriteException(message) ==
    [TTSException("CacheWriteException", message, "CACHE_WRITE_ERROR") EXCEPT
        !.user_message = <<"Cache error. Audio may not be saved for reuse.">>]

\* A variant of the status table without the entry for 401.
create_api_exception_No401(status_code, message) ==
    IF status_code = 400 THEN BadRequestException(message)
    ELSE IF status_code = 403 THEN InvalidAPIKeyException(message)
    ELSE IF status_code = 429 THEN RateLimitedException(message)
    ELSE APIException("APIException", message, status_code, "")

\* HTTP_STATUS_EXCEPTIONS and create_api_exception
create_api_exception(status_code, message) ==
    IF status_code = 400 THEN BadRequestException(message)
    ELSE IF status_code \in {401, 403} THEN InvalidAPIKeyException(message)
    ELSE IF status_code = 429 THEN RateLimitedException(message)
    ELSE APIException("APIException", message, status_code, "")

\* handle_http_error: message f"HTTP {status_code}: {reason}"
handle_http_error(status_code) ==
    create_api_exception(status_code, <<"HTTP " \o ToString(status_code) \o ": reason">>)

\* str(URLError(reason)) is "<urlopen error {reason}>"; handle_network_error
\* looks for the substrings "timeout" and "connection" in its lower case.
\* The reasons of the model and the substrings they hold:
UrlErrorReasons == {"timed out", "Connection refused", "Name or service not known"}
MentionsTimeout(reason) == reason \in {"timeout", "connection timeout"}
MentionsConnection(reason) == reason \in {"Connection refused", "connection timeout"}

handle_network_error(reason) ==
    LET text == <<"<urlopen error " \o reason \o ">">> IN
    IF MentionsTimeout(reason)
    THEN NetworkException("TimeoutException", text, "TIMEOUT", TRUE, MentionsConnection(reason))
    ELSE IF MentionsConnection(reason)
    THEN NetworkException("ConnectionException", text, "CONNECTION_ERROR", FALSE, TRUE)
    ELSE NetworkException("NetworkException", text, "", FALSE, FALSE)


\* ------------------------------------------------------------------------
\* Cache data model (core/models.py) and CacheManager (services/cache_manager.py)
\* ------------------------------------------------------------------------
\* Python's None where a filename is expected.
NoFile == [prefix |-> [text |-> "", model |-> ""], timestamp |-> -1]

\* cache_key[:8]: the first 8 of the 32 hex characters of the digest.  The
\* projection is lossy: keys that differ only in fields it drops share a prefix.
Prefix8(cache_key) == [text |-> cache_key.text, model |-> cache_key.model]

\* f"gemini_tts_{cache_key[:8]}_{timestamp}.wav" with timestamp = int(time.time())
AudioFilename(cache_key, now) == [prefix |-> Prefix8(cache_key), timestamp |-> now]

\* CacheMetadata(): a fresh, empty index
CacheMetadata == [loaded |-> TRUE, version |-> CACHE_VERSION, files |-> << >>]

\* self._metadata = None
NotLoaded == [loaded |-> FALSE, version |-> CACHE_VERSION, files |-> << >>]

\* The index file as absent, or as the JSON object {"version", "files"}
NoIndexFile == [exists |-> FALSE, version |-> "", files |-> << >>]

\* The JSON written by _save_metadata: one (filename, data) member per entry.
SerializeMetadata(metadata) ==
    [exists |-> TRUE,
     version |-> metadata.version,
     files |-> [i \in 1..Len(metadata.files) |->
                  <<metadata.files[i].filename,
                    [created |-> metadata.files[i].created,
                     accessed |-> metadata.files[i].accessed,
                     version |-> metadata.files[i].version,
                     cache_key |-> metadata.files[i].cache_key,
                     file_size |-> metadata.files[i].file_size]>>]]

\* An index file that holds no JSON document: one that open(..., 'w') has
\* truncated and nothing has been written to yet.
TruncatedIndexFile == [exists |-> TRUE, version |-> "", files |-> << >>]

\* _load_metadata: the index file's members as CacheFileInfo entries, or a
\* fresh index when there is no file or json.load raises.
LoadMetadata(metadata_file) ==
    IF metadata_file.exists /\ metadata_file # TruncatedIndexFile
    THEN [loaded |-> TRUE,
          version |-> metadata_file.version,
          files |-> [i \in 1..Len(metadata_file.files) |->
                       [filename |-> metadata_file.files[i][1],
                        created |-> metadata_file.files[i][2].created,
                        accessed |-> metadata_file.files[i][2].accessed,
                        version |-> metadata_file.files[i][2].version,
                        cache_key |-> metadata_file.files[i][2].cache_key,
                        file_size |-> metadata_file.files[i][2].file_size]]]
    ELSE CacheMetadata

\* A variant of get_metadata that reads the index file on every use.
GetMetadata_Reloads(st) == [st EXCEPT !.metadata = LoadMetadata(st.metadata_file)]

\* get_metadata: loads the index on first use only.
GetMetadata(st) ==
    IF st.metadata.loaded THEN st
    ELSE [st EXCEPT !.metadata = LoadMetadata(st.metadata_file)]

\* The conditions of the cache directory during one operation: writable, or
\* the write of the audio temp file fails, or the write of the index fails.
IOConds == {"ok", "audio_write_fails", "index_write_fails"}

\* A variant of the index write that leaves an unreadable index file alone.
WriteIndex_KeepsUnreadable(st, io) ==
    IF io = "index_write_fails"
    THEN [st |-> st, raised |-> TRUE]
    ELSE [st |-> IF st.metadata_file = TruncatedIndexFile THEN st
                 ELSE [st EXCEPT !.metadata_file = SerializeMetadata(st.metadata)],
          raised |-> FALSE]

\* The write of _save_metadata onto an index that has been loaded: the
\* index serialized to a temp file that os.replace puts over the index file;
\* any failure is raised as CacheWriteException.
WriteIndex(st, io) ==
    IF io = "index_write_fails"
    THEN [st |-> st, raised |-> TRUE]
    ELSE [st |-> [st EXCEPT !.metadata_file = SerializeMetadata(st.metadata)],
          raised |-> FALSE]

\* _save_metadata: metadata = self.get_metadata(), then the write.
SaveMetadata(st, io) == WriteIndex(GetMetadata(st), io)

\* os.path.exists(os.path.join(cache_dir, filename))
FileExists(st, filename) == filename \in DOMAIN st.cache_dir

\* A variant of update_access that also resets the creation time.
UpdateAccess_AlsoCreated(files, i, now) == [files EXCEPT ![i].accessed = now, ![i].created = now]

\* CacheMetadata.update_access
UpdateAccess(files, i, now) == [files EXCEPT ![i].accessed = now]

\* del metadata.files[filename], for the entry at position i
DelEntry(files, i) == [j \in 1..(Len(files) - 1) |-> IF j < i THEN files[j] ELSE files[j + 1]]

\* The for loop of get_cached_file from position i of metadata.files on.
\* After "del metadata.files[filename]" the loop's next step raises
\* RuntimeError (dictionary changed size during iteration), which the
\* method's "except Exception" turns into "return None".
\* The hit branch after _save_metadata: "return filename", or "return None"
\* from the except clause when the write raised.
Hit(sv, filename) == [st |-> sv.st, ret |-> IF sv.raised THEN NoFile ELSE filename]

\* The stale branch after _save_metadata: the loop's next step raises
\* RuntimeError (dictionary changed size during iteration), which the
\* method's "except Exception" turns into "return None".
Purged(sv) == [st |-> sv.st, ret |-> NoFile]

RECURSIVE LookupLoop(_, _, _, _, _)

\* A variant of the loop that reports a stale entry as a miss and keeps it.
LookupLoop_KeepStale(st, i, cache_key, now, io) ==
    LET files == st.metadata.files IN
    IF i > Len(files) THEN [st |-> st, ret |-> NoFile]
    ELSE IF files[i].cache_key # cache_key THEN LookupLoop(st, i + 1, cache_key, now, io)
    ELSE IF FileExists(st, files[i].filename)
    THEN Hit(SaveMetadata([st EXCEPT !.metadata.files = UpdateAccess(files, i, now)], io),
             files[i].filename)
    ELSE [st |-> st, ret |-> NoFile]

\* The for loop of get_cached_file from position i of metadata.files on.
LookupLoop(st, i, cache_key, now, io) ==
    LET files == st.metadata.files IN
    IF i > Len(files) THEN [st |-> st, ret |-> NoFile]
    ELSE IF files[i].cache_key # cache_key THEN LookupLoop(st, i + 1, cache_key, now, io)
    ELSE IF FileExists(st, files[i].filename)
    THEN Hit(SaveMetadata([st EXCEPT !.metadata.files = UpdateAccess(files, i, now)], io),
             files[i].filename)
    ELSE Purged(SaveMetadata([st EXCEPT !.metadata.files = DelEntry(files, i)], io))

\* CacheManager.get_cached_file
GetCachedFile(st, cache_key, now, io) == LookupLoop(GetMetadata(st), 1, cache_key, now, io)

\* A variant of add_file that keeps the entry a filename already has.
AddFile_KeepsEntry(metadata, filename, cache_key, file_size, now) ==
    IF \E i \in 1..Len(metadata.files) : metadata.files[i].filename = filename
    THEN metadata
    ELSE [metadata EXCEPT !.files = Append(@, [filename |-> filename, created |-> now,
                                                accessed |-> now, version |-> metadata.version,
                                                cache_key |-> cache_key, file_size |-> file_size])]

\* CacheMetadata.add_file: self.files[filename] = CacheFileInfo(...); an
\* existing filename keeps its position in the dict and gets the new value.
AddFile(metadata, filename, cache_key, file_size, now) ==
    LET info == [filename |-> filename, created |-> now, accessed |-> now,
                 version |-> metadata.version, cache_key |-> cache_key,
                 file_size |-> file_size]
        at == {i \in 1..Len(metadata.files) : metadata.files[i].filename = filename}
    IN  IF at = {} THEN [metadata EXCEPT !.files = Append(@, info)]
        ELSE [metadata EXCEPT !.files = [i \in 1..Len(@) |-> IF i \in at THEN info ELSE @[i]]]

\* os.replace(temp_file, file_path): the file appears under its final name
\* with the whole content, replacing any file of that name.
WriteFile(cache_dir, filename, audio_data) ==
    [f \in DOMAIN cache_dir \cup {filename} |-> IF f = filename THEN audio_data ELSE cache_dir[f]]

\* What save_audio ends with after _save_metadata: the filename, or
\* CacheWriteException when the index write raised.
Stored(sv, filename) ==
    [st |-> sv.st, raised |-> sv.raised, filename |-> IF sv.raised THEN NoFile ELSE filename]

\* CacheManager.save_audio.  The names it builds pass _validate_filename.
\* A failure of the audio write leaves nothing behind (the temp file is
\* removed); a failure of _save_metadata leaves the file and the in-memory
\* entry.  Both are raised as CacheWriteException.
SaveAudio(st, cache_key, audio_data, now, io) ==
    LET filename == AudioFilename(cache_key, now) IN
    IF io = "audio_write_fails"
    THEN [st |-> st, raised |-> TRUE, filename |-> NoFile]
    ELSE LET s1 == [st EXCEPT !.cache_dir = WriteFile(@, filename, audio_data)]
             s2 == GetMetadata(s1)
             s3 == [s2 EXCEPT !.metadata = AddFile(@, filename, cache_key, audio_data.size, now)]
         IN  Stored(SaveMetadata(s3, io), filename)


\* ------------------------------------------------------------------------
\* Cache maintenance (cleanup_expired_files, cleanup_temp_files, clear_cache,
\* validate_cache_integrity, repair_cache)
\* ------------------------------------------------------------------------
\* info.age_days > max_age_days, with age_days = (time.time() - created) / (24 * 3600):
\* in whole seconds, the age exceeds max_age_days days.
IsExpired_Inclusive(info, now, max_age_days) == now - info.created >= max_age_days * 24 * 3600

IsExpired(info, now, max_age_days) == now - info.created > max_age_days * 24 * 3600

\* CacheMetadata.get_expired_files, as the set of the names in the list
GetExpiredFiles(metadata, now, max_age_days) ==
    {metadata.files[i].filename :
        i \in {j \in 1..Len(metadata.files) : IsExpired(metadata.files[j], now, max_age_days)}}

\* The index without the entries of the names in removed
WithoutEntries(files, removed) ==
    LET Kept(e) == e.filename \notin removed IN SelectSeq(files, Kept)

\* The directory without the files of the names in removed
WithoutFiles(cache_dir, removed) == [f \in DOMAIN cache_dir \ removed |-> cache_dir[f]]

\* The loop of cleanup_expired_files over the expired names: os.remove raises
\* for the files in failing, and the entry of such a file stays in the index.
ExpiredLoop_Abort(st, expired, failing) ==
    IF expired \cap failing \cap DOMAIN st.cache_dir # {} THEN st
    ELSE [st EXCEPT !.cache_dir = WithoutFiles(@, expired),
                    !.metadata.files = WithoutEntries(@, expired)]

ExpiredLoop(st, expired, failing) ==
    [st EXCEPT !.cache_dir = WithoutFiles(@, expired \ failing),
               !.metadata.files = WithoutEntries(@, expired \ (failing \cap DOMAIN st.cache_dir))]

\* cleanup_expired_files after its loop removed removed_count entries from
\* the index of st0: _save_metadata when removed_count > 0, return
\* removed_count, or return 0 from the outer except when the write raised.
ExpiredSaved(sv, removed_count) ==
    [st |-> sv.st,
     report |-> [success |-> ~sv.raised, count |-> IF sv.raised THEN 0 ELSE removed_count,
                 issues |-> {}, saves |-> 1]]

AfterExpiredLoop(st0, st, io) ==
    IF Len(st.metadata.files) = Len(st0.metadata.files)
    THEN [st |-> st, report |-> [success |-> TRUE, count |-> 0, issues |-> {}, saves |-> 0]]
    ELSE ExpiredSaved(WriteIndex(st, io), Len(st0.metadata.files) - Len(st.metadata.files))

\* CacheManager.cleanup_expired_files
CleanupExpiredFiles(st, now, failing, io) ==
    AfterExpiredLoop(GetMetadata(st),
                     ExpiredLoop(GetMetadata(st),
                                 GetExpiredFiles(GetMetadata(st).metadata, now, st.config.cache_days),
                                 failing),
                     io)

\* The names of the temp files: f".tmp_{filename}" and f"{self.metadata_file}.tmp"
AudioTempLead == ".tmp_"
IndexTempLead == "cache_metadata.json"

\* filename.startswith(CacheConstants.TEMP_FILE_PREFIX), for a name that
\* begins with lead: none of the leads is a prefix of another.
StartsWithTempPrefix(lead) == lead = TEMP_FILE_PREFIX

\* file_age > cleanup_age in cleanup_temp_files
IsAbandoned(ctime, now) == now - ctime > TEMP_FILE_CLEANUP_HOURS * 3600

\* cleanup_temp_files on the audio temp files: the names it removes
RemovedTemps(temps, now) ==
    {f \in DOMAIN temps : StartsWithTempPrefix(AudioTempLead) /\ IsAbandoned(temps[f].ctime, now)}

\* cleanup_temp_files on the index temp file
IndexTempRemoved(temp, now) ==
    temp.exists /\ StartsWithTempPrefix(IndexTempLead) /\ IsAbandoned(temp.ctime, now)

\* An issue of validate_cache_integrity: f"{kind}: {filename}..."
Issue(kind, filename) == [kind |-> kind, filename |-> filename]

\* The issues of one index entry
EntryIssues_AnySize(st, e) ==
    IF ~FileExists(st, e.filename) THEN {Issue("Missing file", e.filename)}
    ELSE (IF st.cache_dir[e.filename].size # e.file_size
          THEN {Issue("Size mismatch", e.filename)} ELSE {})
         \cup (IF st.cache_dir[e.filename].size < MIN_AUDIO_SIZE
               THEN {Issue("Audio too small", e.filename)} ELSE {})

EntryIssues(st, e) ==
    IF ~FileExists(st, e.filename) THEN {Issue("Missing file", e.filename)}
    ELSE (IF e.file_size > 0 /\ st.cache_dir[e.filename].size # e.file_size
          THEN {Issue("Size mismatch", e.filename)} ELSE {})
         \cup (IF st.cache_dir[e.filename].size < MIN_AUDIO_SIZE
               THEN {Issue("Audio too small", e.filename)} ELSE {})

\* The names of the index
Indexed(st) == {st.metadata.files[i].filename : i \in 1..Len(st.metadata.files)}

\* The issues list of validate_cache_integrity on a loaded index.  The temp
\* files begin with '.' and are not listed as orphaned.
Issues(st) ==
    UNION {EntryIssues(st, st.metadata.files[i]) : i \in 1..Len(st.metadata.files)}
    \cup {Issue("Orphaned file", f) : f \in DOMAIN st.cache_dir \ Indexed(st)}

\* CacheManager.validate_cache_integrity
ValidateCacheIntegrity(st) ==
    [st |-> GetMetadata(st),
     report |-> [success |-> TRUE, count |-> 0, issues |-> Issues(GetMetadata(st)), saves |-> 0]]

\* The names repair_cache reads back from the "Missing file: " issues
FilesToRemove(issues) == {i.filename : i \in {j \in issues : j.kind = "Missing file"}}

\* repair_cache after _save_metadata: the repairs, or the error result
Repaired(sv, repairs) ==
    [st |-> sv.st,
     report |-> [success |-> ~sv.raised, count |-> IF sv.raised THEN 0 ELSE Cardinality(repairs),
                 issues |-> IF sv.raised THEN {} ELSE repairs, saves |-> 1]]

\* A variant of the repair that also deletes the orphaned files.
AfterValidation_DeleteOrphans(st, issues, io) ==
    IF issues = {}
    THEN [st |-> st, report |-> [success |-> TRUE, count |-> 0, issues |-> {}, saves |-> 0]]
    ELSE Repaired(WriteIndex([st EXCEPT !.metadata.files = WithoutEntries(@, FilesToRemove(issues)),
                                         !.cache_dir = WithoutFiles(@, DOMAIN @ \ Indexed(st))], io),
                  FilesToRemove(issues))

\* repair_cache after the validation returned issues
AfterValidation(st, issues, io) ==
    IF FilesToRemove(issues) = {}
    THEN [st |-> st, report |-> [success |-> TRUE, count |-> 0, issues |-> {}, saves |-> 0]]
    ELSE Repaired(WriteIndex([st EXCEPT !.metadata.files = WithoutEntries(@, FilesToRemove(issues))], io),
                  FilesToRemove(issues))

\* CacheManager.repair_cache
RepairCache(st, io) == AfterValidation(GetMetadata(st), Issues(GetMetadata(st)), io)

\* clear_cache after _save_metadata: the success result with the count, or
\* the error result
Cleared(sv, removed_count) ==
    [st |-> sv.st,
     report |-> [success |-> ~sv.raised, count |-> IF sv.raised THEN 0 ELSE removed_count,
                 issues |-> {}, saves |-> 1]]

\* CacheManager.clear_cache on a directory with n_temp audio temp files (their
\* names end with ".wav" too): os.remove raises for the files in failing,
\* which stay; the index is reset and written.
ClearCache(st, n_temp, failing, io) ==
    Cleared(WriteIndex([st EXCEPT !.cache_dir = WithoutFiles(@, DOMAIN @ \ failing),
                                  !.metadata = CacheMetadata], io),
            Cardinality(DOMAIN st.cache_dir \ failing) + n_temp)


\* ------------------------------------------------------------------------
\* The API call (AudioGenerator._call_gemini_api, _extract_audio_data)
\* ------------------------------------------------------------------------
\* What urlopen and response.read() can do for one request.
Response(t, status, body, size, reason) ==
    [t |-> t, status |-> status, body |-> body, size |-> size, reason |-> reason]

AudioResponse(size) == Response("response", 200, "audio", size, "")   \* a full envelope, size decoded bytes
NoCandidates == Response("response", 200, "no_candidates", 0, "")     \* JSON without "candidates"
BadJson == Response("response", 200, "bad_json", 0, "")               \* a body json.loads rejects
Status204 == Response("response", 204, "", 0, "")                    \* a 2xx status other than 200
HTTPError(status) == Response("HTTPError", status, "", 0, "")        \* urlopen raises HTTPError
URLError(reason) == Response("URLError", 0, "", 0, reason)           \* urlopen raises URLError
ReadTimeout == Response("read_timeout", 200, "", 0, "")              \* response.read() raises socket.timeout

NoException == TTSException("Exception", << >>, "")
NoCall == [model_id |-> "", prompt |-> [kind |-> "", text |-> << >>, style |-> ""],
           voice |-> "", temperature |-> 0, thinking_budget |-> 0, timeout |-> 0]
NoAudio == [src |-> NoCall, size |-> 0]

Returned(audio) == [ok |-> TRUE, audio |-> audio, exc |-> NoException]
Raised(exc) == [ok |-> FALSE, audio |-> NoAudio, exc |-> exc]

\* A variant of _extract_audio_data without the size validation.
ExtractAudioData_AnySize(call, resp) ==
    IF resp.body = "bad_json"
    THEN Raised(APIException("APIException", <<"Invalid JSON response: ">>, 0, ""))
    ELSE IF resp.body # "audio"
    THEN Raised(AudioException("AudioException",
                    <<"Audio extraction failed: ">>
                        \o Str(APIException("APIException", <<"Invalid API response: no candidates">>, 0, "")),
                    ""))
    ELSE Returned([src |-> call, size |-> resp.size])

\* _extract_audio_data: the exceptions raised inside its try block (missing
\* envelope fields, size validation) are caught by its own "except Exception"
\* and re-raised as AudioException; the JSONDecodeError handler raises
\* APIException.
ExtractAudioData(call, resp) ==
    IF resp.body = "bad_json"
    THEN Raised(APIException("APIException", <<"Invalid JSON response: ">>, 0, ""))
    ELSE IF resp.body # "audio"
    THEN Raised(AudioException("AudioException",
                    <<"Audio extraction failed: ">>
                        \o Str(APIException("APIException", <<"Invalid API response: no candidates">>, 0, "")),
                    ""))
    ELSE IF resp.size < MIN_AUDIO_SIZE
    THEN Raised(AudioException("AudioException",
                    <<"Audio extraction failed: ">> \o Str(AudioSizeException(<<"Audio data too small">>)), ""))
    ELSE IF resp.size > MAX_AUDIO_SIZE
    THEN Raised(AudioException("AudioException",
                    <<"Audio extraction failed: ">> \o Str(AudioSizeException(<<"Audio data too large">>)), ""))
    ELSE Returned([src |-> call, size |-> resp.size])

\* The "except Exception" clause of _call_gemini_api around the extraction.
Rewrapped(r) ==
    IF r.ok THEN r
    ELSE Raised(APIException("APIException", <<"API call failed: ">> \o Str(r.exc), 0, ""))

\* _call_gemini_api: HTTPError and URLError are mapped by handle_http_error
\* and handle_network_error; everything else raised inside the try block
\* (a non-200 status, a failure of read(), any failure of
\* _extract_audio_data) is re-raised as a plain APIException.
CallGeminiApi(call, resp) ==
    IF resp.t = "HTTPError" THEN Raised(handle_http_error(resp.status))
    ELSE IF resp.t = "URLError" THEN Raised(handle_network_error(resp.reason))
    ELSE IF resp.t = "read_timeout"
    THEN Raised(APIException("APIException", <<"API call failed: ", "timed out">>, 0, ""))
    ELSE IF resp.status # 200
    THEN Raised(APIException("APIException",
                    <<"API call failed: ">>
                        \o Str(create_api_exception(resp.status, <<"HTTP " \o ToString(resp.status)>>)),
                    0, ""))
    ELSE Rewrapped(ExtractAudioData(call, resp))

\* ------------------------------------------------------------------------
\* AudioGenerator (services/audio_generator.py)
\* ------------------------------------------------------------------------
\* AudioGenerationResult
GenerationResult(success, filename, error_message, used_cache, processing_mode) ==
    [success |-> success, filename |-> filename, error_message |-> error_message,
     used_cache |-> used_cache, processing_mode |-> processing_mode]

\* A variant of the key that takes the style whether style control is on or not.
GenerateCacheKey_Style(config, request) ==
    [text |-> request.text,
     model |-> config.model,
     voice |-> config.voice,
     temperature |-> config.temperature,
     mode |-> request.processing_mode,
     style |-> config.preprocessing_style,
     thinking_budget |-> IF request.processing_mode = "unified" THEN config.thinking_budget ELSE 0]

\* A variant of the key that takes the thinking budget in every mode.
GenerateCacheKey_Budget(config, request) ==
    [text |-> request.text,
     model |-> config.model,
     voice |-> config.voice,
     temperature |-> config.temperature,
     mode |-> request.processing_mode,
     style |-> IF config.enable_style_control THEN config.preprocessing_style ELSE "None",
     thinking_budget |-> config.thinking_budget]

\* _generate_cache_key: the md5 of json.dumps(key_data, sort_keys=True)
GenerateCacheKey(config, request) ==
    [text |-> request.text,
     model |-> config.model,
     voice |-> config.voice,
     temperature |-> config.temperature,
     mode |-> request.processing_mode,
     style |-> IF config.enable_style_control THEN config.preprocessing_style ELSE "None",
     thinking_budget |-> IF request.processing_mode = "unified" THEN config.thinking_budget ELSE 0]

\* _build_unified_prompt: the text, and a style line unless the style is "natural"
BuildUnifiedPrompt(config, text) ==
    [kind |-> "unified", text |-> <<text>>,
     style |-> IF config.preprocessing_style # "natural" THEN config.preprocessing_style ELSE ""]

\* TextProcessor.preprocess_text
PreprocessText(config, text) ==
    IF ~config.enable_style_control THEN <<text>>
    ELSE <<text, "preprocessed", config.preprocessing_style>>

\* The prompt of _generate_traditional
BuildTraditionalPrompt(config, text) ==
    [kind |-> "traditional",
     text |-> IF config.enable_style_control THEN PreprocessText(config, text) ELSE <<text>>,
     style |-> ""]

\* A call of _call_gemini_api recorded among the calls of the operation.
Called(st, call, r) ==
    [st |-> [st EXCEPT !.calls = Append(@, call)], ok |-> r.ok, audio |-> r.audio, exc |-> r.exc]

\* The outcome the n-th call of an operation gets: the n-th of outs (the
\* last one from then on).
Outcome(outs, n) == outs[IF n <= Len(outs) THEN n ELSE Len(outs)]

\* One call of _call_gemini_api by the generator.
ApiCall(st, call, outs) ==
    Called(st, call, IF outs = << >> THEN Raised(NoException)
                     ELSE CallGeminiApi(call, Outcome(outs, Len(st.calls) + 1)))

\* The result of _try_cache_lookup for what get_cached_file returned.
LookupResult(r, request) ==
    IF r.ret # NoFile
    THEN [st |-> r.st, result |-> GenerationResult(TRUE, r.ret, << >>, TRUE, request.processing_mode)]
    ELSE [st |-> r.st, result |-> GenerationResult(FALSE, NoFile, << >>, FALSE, "None")]

\* _try_cache_lookup
TryCacheLookup(st, request, now, io) ==
    LookupResult(GetCachedFile(st, GenerateCacheKey(st.config, request), now, io), request)

\* The result of _save_and_return after save_audio: a failed cache write is
\* logged and the result is still a success, without a filename.
Success(r, mode) == [st |-> r.st, result |-> GenerationResult(TRUE, r.filename, << >>, FALSE, mode)]

\* What a try block of the generator ends with: a result, or an exception.
Completed(r) == [st |-> r.st, result |-> r.result, raised |-> FALSE, exc |-> NoException]
Failed(r) ==
    [st |-> r.st, result |-> GenerationResult(FALSE, NoFile, << >>, FALSE, "None"),
     raised |-> TRUE, exc |-> r.exc]

\* A variant of _save_and_return that never writes the cache.
SaveAndReturn_NoWrite(st, request, audio_data, mode, now, io) ==
    [st |-> st, result |-> GenerationResult(TRUE, NoFile, << >>, FALSE, mode)]

\* A variant of _save_and_return that gives up when save_audio raises.
SaveAndReturn_Aborts(st, request, audio_data, mode, now, io) ==
    LET r == SaveAudio(st, GenerateCacheKey(st.config, request), audio_data, now, io) IN
    IF request.use_cache /\ r.raised
    THEN [st |-> r.st,
          result |-> GenerationResult(FALSE, NoFile, CacheWriteException(<<"Cannot save audio file">>).user_message,
                                      FALSE, mode)]
    ELSE IF request.use_cache THEN Success(r, mode)
    ELSE [st |-> st, result |-> GenerationResult(TRUE, NoFile, << >>, FALSE, mode)]

\* _save_and_return
SaveAndReturn(st, request, audio_data, mode, now, io) ==
    IF request.use_cache
    THEN Success(SaveAudio(st, GenerateCacheKey(st.config, request), audio_data, now, io), mode)
    ELSE [st |-> st, result |-> GenerationResult(TRUE, NoFile, << >>, FALSE, mode)]

\* The try block of a generation after its API call r: _save_and_return, or
\* the exception of the call.
AfterCall(r, request, mode, now, io) ==
    IF r.ok THEN Completed(SaveAndReturn(r.st, request, r.audio, mode, now, io))
    ELSE Failed(r)

\* The try block of _generate_traditional
TraditionalAttempt(st, request, outs, now, io) ==
    AfterCall(ApiCall(st, [model_id |-> ModelDefinitions[st.config.model].model_id,
                           prompt |-> BuildTraditionalPrompt(st.config, request.text),
                           voice |-> st.config.voice,
                           temperature |-> st.config.temperature,
                           thinking_budget |-> 0,
                           timeout |-> TRADITIONAL_TIMEOUT],
                      outs),
              request, "traditional", now, io)

\* The try block of _generate_unified
UnifiedAttempt(st, request, outs, now, io) ==
    AfterCall(ApiCall(st, [model_id |-> ModelDefinitions[st.config.model].model_id,
                           prompt |-> BuildUnifiedPrompt(st.config, request.text),
                           voice |-> st.config.voice,
                           temperature |-> st.config.temperature,
                           thinking_budget |-> st.config.thinking_budget,
                           timeout |-> UNIFIED_TIMEOUT],
                      outs),
              request, "unified", now, io)

RECURSIVE HandleGenerationError(_, _, _, _, _, _)

\* A variant of the generation methods without their except clause: what
\* the try block raised leaves the method.
Caught_Uncaught(attempt, request, outs, now, io) == [st |-> attempt.st, result |-> attempt.result]

\* The except clause of _generate_unified and of _generate_traditional:
\* "except Exception as e: return self._handle_generation_error(e, request)"
Caught(attempt, request, outs, now, io) ==
    IF attempt.raised
    THEN HandleGenerationError(attempt.st, attempt.exc, request, outs, now, io)
    ELSE [st |-> attempt.st, result |-> attempt.result]

\* _generate_traditional
GenerateTraditional(st, request, outs, now, io) ==
    Caught(TraditionalAttempt(st, request, outs, now, io), request, outs, now, io)

\* A variant of the return after the fallback attempt that passes the
\* fallback's result on, failed or not.
AfterFallback_Result(r, original_model, failure) ==
    [st |-> [r.st EXCEPT !.config.model = original_model], result |-> r.result]

\* What _handle_generation_error returns after the fallback attempt r: the
\* finally clause restores self.config.model; a fallback that did not
\* succeed falls through to the error result of the error passed in.
AfterFallback(r, original_model, failure) ==
    IF r.result.success
    THEN [st |-> [r.st EXCEPT !.config.model = original_model], result |-> r.result]
    ELSE [st |-> [r.st EXCEPT !.config.model = original_model], result |-> failure]

\* The error result of _handle_generation_error
ErrorResult(error, request) ==
    GenerationResult(FALSE, NoFile, error.user_message, FALSE, request.processing_mode)

\* A variant that falls back after every kind of error.
HandleGenerationError_AnyError(st, error, request, outs, now, io) ==
    IF st.config.enable_fallback /\ st.config.model # DEFAULT_FALLBACK_MODEL
    THEN AfterFallback(
             GenerateTraditional([st EXCEPT !.config.model = DEFAULT_FALLBACK_MODEL],
                                 [request EXCEPT !.processing_mode = "traditional"],
                                 outs, now, io),
             st.config.model, ErrorResult(error, request))
    ELSE [st |-> st, result |-> ErrorResult(error, request)]

\* A variant that retries the fallback model until three calls have been made.
HandleGenerationError_Retries(st, error, request, outs, now, io) ==
    IF /\ st.config.enable_fallback
       /\ Len(st.calls) < 3
       /\ ~IsInstance(error.cls, "InvalidAPIKeyException")
       /\ ~IsInstance(error.cls, "RateLimitedException")
    THEN AfterFallback(
             GenerateTraditional([st EXCEPT !.config.model = DEFAULT_FALLBACK_MODEL],
                                 [request EXCEPT !.processing_mode = "traditional"],
                                 outs, now, io),
             st.config.model, ErrorResult(error, request))
    ELSE [st |-> st, result |-> ErrorResult(error, request)]

\* A variant whose fallback request leaves use_cache at its default, True.
HandleGenerationError_CachesFallback(st, error, request, outs, now, io) ==
    IF /\ st.config.enable_fallback
       /\ st.config.model # DEFAULT_FALLBACK_MODEL
       /\ ~IsInstance(error.cls, "InvalidAPIKeyException")
       /\ ~IsInstance(error.cls, "RateLimitedException")
    THEN AfterFallback(
             GenerateTraditional([st EXCEPT !.config.model = DEFAULT_FALLBACK_MODEL],
                                 [text |-> request.text, processing_mode |-> "traditional",
                                  use_cache |-> TRUE],
                                 outs, now, io),
             st.config.model, ErrorResult(error, request))
    ELSE [st |-> st, result |-> ErrorResult(error, request)]

\* _handle_generation_error: the fallback attempt is _generate_traditional
\* with self.config.model set to the fallback model and a request in
\* traditional mode that keeps the text and use_cache.
HandleGenerationError(st, error, request, outs, now, io) ==
    IF /\ st.config.enable_fallback
       /\ st.config.model # DEFAULT_FALLBACK_MODEL
       /\ ~IsInstance(error.cls, "InvalidAPIKeyException")
       /\ ~IsInstance(error.cls, "RateLimitedException")
    THEN AfterFallback(
             GenerateTraditional([st EXCEPT !.config.model = DEFAULT_FALLBACK_MODEL],
                                 [text |-> request.text, processing_mode |-> "traditional",
                                  use_cache |-> request.use_cache],
                                 outs, now, io),
             st.config.model, ErrorResult(error, request))
    ELSE [st |-> st, result |-> ErrorResult(error, request)]

\* _generate_unified
GenerateUnified(st, request, outs, now, io) ==
    Caught(UnifiedAttempt(st, request, outs, now, io), request, outs, now, io)

\* The generation after the cache check of generate_audio
GenerateNew(st, request, outs, now, io) ==
    IF request.processing_mode = "unified" THEN GenerateUnified(st, request, outs, now, io)
    ELSE GenerateTraditional(st, request, outs, now, io)

\* generate_audio after its cache check
AfterLookup(cached, request, outs, now, io) ==
    IF cached.result.success THEN cached
    ELSE GenerateNew(cached.st, request, outs, now, io)

\* AudioGenerator.generate_audio
GenerateAudioOp(st, request, outs, now, io) ==
    IF request.use_cache
    THEN AfterLookup(TryCacheLookup(st, request, now, io), request, outs, now, io)
    ELSE GenerateNew(st, request, outs, now, io)


\* ------------------------------------------------------------------------
\* State
\* ------------------------------------------------------------------------
VARIABLES
    metadata,       \* CacheManager._metadata: the in-memory index
    metadata_file,  \* cache_metadata.json in the cache directory
    cache_dir,      \* the audio files of the cache directory: filename -> bytes
    config,         \* AudioGenerator.config
    now,            \* the clock, in seconds
    last,           \* the last operation: the cache it started from, its inputs,
                    \* its API calls and what it returned
    temp_files,     \* the audio temp files of the cache directory: the
                    \* filename f of ".tmp_" + f -> bytes and creation time
    metadata_temp,  \* cache_metadata.json.tmp in the cache directory
    threads         \* the workers of the executor: where each is in save_audio

vars == <<metadata, metadata_file, cache_dir, config, now, last, temp_files, metadata_temp, threads>>

\* The outcomes the API calls of an operation are drawn from: one for the
\* primary call and one for the fallback call.
PrimaryResponses ==
    {AudioResponse(2000), AudioResponse(500), NoCandidates,
     HTTPError(400), HTTPError(401), HTTPError(429), URLError("timed out")}
FallbackResponses == {AudioResponse(2000), HTTPError(500)}

\* The bytes of a direct save_audio call.
PutData == [src |-> NoCall, size |-> 2000]

\* The keys save_audio is called with: those of the requests of the generator.
PutKeys == {GenerateCacheKey(config, r) : r \in Requests}

\* The keys get_cached_file is called with: those of the generator and of its fallback.
LookupKeys ==
    {GenerateCacheKey(c, r) :
        c \in {config, [config EXCEPT !.model = DEFAULT_FALLBACK_MODEL]}, r \in Requests}

NoRequest == [text |-> "", processing_mode |-> "", use_cache |-> FALSE]
NoKey == GenerateCacheKey(DefaultConfig, NoRequest)
NoResult == GenerationResult(FALSE, NoFile, << >>, FALSE, "None")

\* The cache before anything has run.
NoCache == [metadata |-> NotLoaded, metadata_file |-> NoIndexFile, cache_dir |-> [f \in {} |-> NoAudio]]

\* What a maintenance operation reports: the Result's success flag, the count
\* it returns or logs, its issues or repairs, and the _save_metadata calls made.
NoReport == [success |-> FALSE, count |-> 0, issues |-> {}, saves |-> 0]

\* The record of an operation that returns nothing the properties read.
Other == [op |-> "other", before |-> NoCache, request |-> NoRequest, cache_key |-> NoKey,
          io |-> "ok", outs |-> << >>, calls |-> << >>, result |-> NoResult, ret |-> NoFile,
          failing |-> {}, report |-> NoReport, lookup_io |-> "ok",
          audio |-> NoAudio, exc |-> NoException]

\* The cache directory without temp files.
NoTempFiles == [f \in {} |-> [data |-> NoAudio, ctime |-> 0]]
NoIndexTemp == [exists |-> FALSE, content |-> NoIndexFile, ctime |-> 0]

\* ThreadPoolExecutor(max_workers=2)
max_workers == 2
Workers == 1..max_workers

\* A worker that runs nothing.
IdleThread == [pc |-> "idle", cache_key |-> NoKey, audio_data |-> NoAudio, filename |-> NoFile,
               fd |-> "closed", data |-> NoIndexFile, exc |-> "",
               mode |-> "", originals |-> << >>, success |-> FALSE]

State == [metadata |-> metadata, metadata_file |-> metadata_file, cache_dir |-> cache_dir,
          config |-> config, calls |-> << >>]

\* A new process on a new cache directory, its generator constructed with any
\* of the configurations: nothing loaded, nothing on disk.
Init ==
    /\ metadata = NotLoaded
    /\ metadata_file = NoIndexFile
    /\ cache_dir = [f \in {} |-> NoAudio]
    /\ config \in Configs
    /\ now = 0
    /\ last = Other
    /\ temp_files = NoTempFiles
    /\ metadata_temp = NoIndexTemp
    /\ threads = [w \in Workers |-> IdleThread]

\* The caller holds no result: operations are issued one at a time, each
\* after the result of the one before has been taken.
Idle == last = Other

\* The cache and the record after an operation that returned r, recorded as
\* rec together with the cache the operation started from.
Applied(r, rec) ==
    /\ Cardinality(DOMAIN r.st.cache_dir) <= MaxFiles
    /\ Len(r.st.metadata.files) <= MaxFiles
    /\ metadata' = r.st.metadata
    /\ metadata_file' = r.st.metadata_file
    /\ cache_dir' = r.st.cache_dir
    /\ config' = r.st.config
    /\ last' = [rec EXCEPT !.before = [metadata |-> metadata, metadata_file |-> metadata_file,
                                       cache_dir |-> cache_dir]]
    /\ UNCHANGED now

\* The state after an operation that returned r and left no temp file.
Returns(r, rec) == Applied(r, rec) /\ UNCHANGED <<temp_files, metadata_temp, threads>>

GenerateAudioRecord(request, outs, r) ==
    [Other EXCEPT !.op = "generate_audio", !.request = request,
                  !.outs = [n \in 1..Len(r.st.calls) |-> Outcome(outs, n)],
                  !.calls = r.st.calls, !.result = r.result]

\* generate_audio returned r: the record keeps the outcomes of the API calls
\* that were made.
GenerateAudioReturns(request, outs, r) == Returns(r, GenerateAudioRecord(request, outs, r))

\* generate_audio(request) on a writable cache directory.  Its inputs are the
\* request and what the API does with the calls it makes: the outcome of the
\* primary call and that of the fallback call.
GenerateAudio ==
    /\ Idle
    /\ \E request \in Requests, primary \in PrimaryResponses, fallback \in FallbackResponses :
         GenerateAudioReturns(request, <<primary, fallback>>,
                              GenerateAudioOp(State, request, <<primary, fallback>>, now, "ok"))

\* get_cached_file returned r.
LookupReturns(cache_key, r) ==
    Returns(r, [Other EXCEPT !.op = "get_cached_file", !.cache_key = cache_key, !.ret = r.ret])

\* get_cached_file(cache_key), called on the cache manager directly.
LookupCachedFile ==
    /\ Idle
    /\ \E cache_key \in LookupKeys :
         LookupReturns(cache_key, GetCachedFile(State, cache_key, now, "ok"))

\* save_audio returned r.
PutReturns(cache_key, r) ==
    Returns(r, [Other EXCEPT !.op = "save_audio", !.cache_key = cache_key, !.ret = r.filename])

\* save_audio(cache_key, audio_data), called on the cache manager directly.
PutAudio ==
    /\ Idle
    /\ \E cache_key \in PutKeys :
         PutReturns(cache_key, SaveAudio(State, cache_key, PutData, now, "ok"))

\* The caller takes the result of the operation that returned
\* (callback(result) in AsyncTTSOperations).
Deliver ==
    /\ ~Idle
    /\ last' = Other
    /\ UNCHANGED <<metadata, metadata_file, cache_dir, config, now, temp_files, metadata_temp, threads>>

\* A file of the cache directory is deleted by something other than the cache manager.
ExternalDelete ==
    \E filename \in DOMAIN cache_dir :
        /\ Idle
        /\ cache_dir' = [f \in DOMAIN cache_dir \ {filename} |-> cache_dir[f]]
        /\ last' = Other
        /\ UNCHANGED <<metadata, metadata_file, config, now, temp_files, metadata_temp, threads>>

\* A second passes.
Tick ==
    /\ Idle
    /\ now < MaxTime
    /\ now' = now + 1
    /\ last' = Other
    /\ UNCHANGED <<metadata, metadata_file, cache_dir, config, temp_files, metadata_temp, threads>>

Next == GenerateAudio \/ LookupCachedFile \/ PutAudio \/ Deliver \/ ExternalDelete \/ Tick

Spec == Init /\ [][Next]_vars


\* ------------------------------------------------------------------------
\* save_audio on the workers of the executor, statement by statement
\* ------------------------------------------------------------------------
\* The bytes worker w saves: each worker has bytes of its own.
WorkerData(w) == [src |-> NoCall, size |-> 1000 + 1000 * w]
PutDatas == {WorkerData(w) : w \in Workers}

\* The keys the workers save under: those of the requests that use the cache
\* in unified mode.
WorkerKeys ==
    {GenerateCacheKey(config, r) : r \in {q \in Requests : q.use_cache /\ q.processing_mode = "unified"}}

\* The filenames the workers are saving under.
InProgress == {threads[w].filename : w \in {v \in Workers : threads[v].pc # "idle"}}

\* The workers other than w that hold the temp file of filename open.
WritersOfTemp(w, filename) ==
    {v \in Workers \ {w} :
        threads[v].pc = "write" /\ threads[v].filename = filename /\ threads[v].fd = "temp"}

\* The workers other than w that hold the index temp file open.
WritersOfIndexTemp(w) ==
    {v \in Workers \ {w} : threads[v].pc = "dump" /\ threads[v].fd = "temp"}

\* A temp file removed from the directory.
RemoveTemp(files, filename) == [f \in DOMAIN files \ {filename} |-> files[f]]

\* save_audio(cache_key, audio_data) is called on worker w: timestamp,
\* filename, file_path, _validate_filename.
CallSaveAudio(w) ==
    /\ threads[w].pc = "idle"
    /\ \E cache_key \in WorkerKeys, audio_data \in {WorkerData(w)} :
         /\ Cardinality(DOMAIN cache_dir \cup InProgress \cup {AudioFilename(cache_key, now)}) <= MaxFiles
         /\ threads' = [threads EXCEPT ![w] =
                [IdleThread EXCEPT !.pc = "open_temp", !.cache_key = cache_key,
                                   !.audio_data = audio_data,
                                   !.filename = AudioFilename(cache_key, now)]]
    /\ UNCHANGED <<metadata, metadata_file, cache_dir, config, now, last, temp_files, metadata_temp>>

\* open(temp_file, 'wb'): the temp file is created, or truncated when a file
\* of that name is there.
OpenTemp(w) ==
    /\ threads[w].pc = "open_temp"
    /\ temp_files' =
         [f \in DOMAIN temp_files \cup {threads[w].filename} |->
            IF f # threads[w].filename THEN temp_files[f]
            ELSE [data |-> NoAudio,
                  ctime |-> IF f \in DOMAIN temp_files THEN temp_files[f].ctime ELSE now]]
    /\ threads' = [threads EXCEPT ![w].pc = "write", ![w].fd = "temp"]
    /\ UNCHANGED <<metadata, metadata_file, cache_dir, config, now, last, metadata_temp>>

\* f.write(audio_data) and the close at the end of the with block.  The bytes
\* go to the file the handle was opened on, under whatever name it has now.
WriteTemp(w) ==
    /\ threads[w].pc = "write"
    /\ IF threads[w].fd = "temp"
       THEN /\ temp_files' = [temp_files EXCEPT ![threads[w].filename].data = threads[w].audio_data]
            /\ UNCHANGED cache_dir
       ELSE /\ cache_dir' = [cache_dir EXCEPT ![threads[w].filename] = threads[w].audio_data]
            /\ UNCHANGED temp_files
    /\ threads' = [threads EXCEPT ![w].pc = "replace", ![w].fd = "closed"]
    /\ UNCHANGED <<metadata, metadata_file, config, now, last, metadata_temp>>

\* f.write(audio_data) raises OSError before the bytes are written.
WriteFails(w) ==
    /\ threads[w].pc = "write"
    /\ threads' = [threads EXCEPT ![w].pc = "except", ![w].fd = "closed", ![w].exc = "OSError"]
    /\ UNCHANGED <<metadata, metadata_file, cache_dir, config, now, last, temp_files, metadata_temp>>

\* os.replace(temp_file, file_path): the temp file gets the final name, and a
\* handle another worker holds on it stays on the renamed file;
\* FileNotFoundError when the temp file is gone.
ReplaceTemp(w) ==
    /\ threads[w].pc = "replace"
    /\ IF threads[w].filename \in DOMAIN temp_files
       THEN /\ cache_dir' = WriteFile(cache_dir, threads[w].filename, temp_files[threads[w].filename].data)
            /\ temp_files' = RemoveTemp(temp_files, threads[w].filename)
            /\ threads' = [v \in Workers |->
                             IF v = w THEN [threads[v] EXCEPT !.pc = "add_file"]
                             ELSE IF v \in WritersOfTemp(w, threads[w].filename)
                             THEN [threads[v] EXCEPT !.fd = "final"]
                             ELSE threads[v]]
       ELSE /\ threads' = [threads EXCEPT ![w].pc = "except", ![w].exc = "FileNotFoundError"]
            /\ UNCHANGED <<cache_dir, temp_files>>
    /\ UNCHANGED <<metadata, metadata_file, config, now, last, metadata_temp>>

\* metadata = self.get_metadata(); metadata.add_file(filename, cache_key, len(audio_data))
AddFileStep(w) ==
    /\ threads[w].pc = "add_file"
    /\ metadata' = AddFile(GetMetadata(State).metadata, threads[w].filename, threads[w].cache_key,
                           threads[w].audio_data.size, now)
    /\ threads' = [threads EXCEPT ![w].pc = "save_metadata"]
    /\ UNCHANGED <<metadata_file, cache_dir, config, now, last, temp_files, metadata_temp>>

\* _save_metadata up to the open: data is built from the index as it is now.
BuildData(w) ==
    /\ threads[w].pc = "save_metadata"
    /\ metadata' = GetMetadata(State).metadata
    /\ threads' = [threads EXCEPT ![w].pc = "open_index_temp",
                                  ![w].data = SerializeMetadata(GetMetadata(State).metadata)]
    /\ UNCHANGED <<metadata_file, cache_dir, config, now, last, temp_files, metadata_temp>>

\* open(temp_file, 'w') in _save_metadata: cache_metadata.json.tmp is
\* created, or truncated when it is there.
OpenIndexTemp(w) ==
    /\ threads[w].pc = "open_index_temp"
    /\ metadata_temp' = [exists |-> TRUE, content |-> TruncatedIndexFile,
                         ctime |-> IF metadata_temp.exists THEN metadata_temp.ctime ELSE now]
    /\ threads' = [threads EXCEPT ![w].pc = "dump", ![w].fd = "temp"]
    /\ UNCHANGED <<metadata, metadata_file, cache_dir, config, now, last, temp_files>>

\* json.dump(data, f) and the close at the end of the with block.
DumpIndex(w) ==
    /\ threads[w].pc = "dump"
    /\ IF threads[w].fd = "temp"
       THEN /\ metadata_temp' = [metadata_temp EXCEPT !.content = threads[w].data]
            /\ UNCHANGED metadata_file
       ELSE /\ metadata_file' = threads[w].data
            /\ UNCHANGED metadata_temp
    /\ threads' = [threads EXCEPT ![w].pc = "replace_index", ![w].fd = "closed"]
    /\ UNCHANGED <<metadata, cache_dir, config, now, last, temp_files>>

\* os.replace(temp_file, self.metadata_file), or the FileNotFoundError that
\* _save_metadata raises as CacheWriteException.
ReplaceIndex(w) ==
    /\ threads[w].pc = "replace_index"
    /\ IF metadata_temp.exists
       THEN /\ metadata_file' = metadata_temp.content
            /\ metadata_temp' = NoIndexTemp
            /\ threads' = [v \in Workers |->
                             IF v = w THEN [threads[v] EXCEPT !.pc = "return"]
                             ELSE IF v \in WritersOfIndexTemp(w)
                             THEN [threads[v] EXCEPT !.fd = "final"]
                             ELSE threads[v]]
       ELSE /\ threads' = [threads EXCEPT ![w].pc = "except", ![w].exc = "CacheWriteException"]
            /\ UNCHANGED <<metadata_file, metadata_temp>>
    /\ UNCHANGED <<metadata, cache_dir, config, now, last, temp_files>>

\* The except clause of save_audio: the temp file of that name is removed
\* if there is one, and CacheWriteException is raised; the worker is free.
ExceptStep(w) ==
    /\ threads[w].pc = "except"
    /\ temp_files' = RemoveTemp(temp_files, threads[w].filename)
    /\ threads' = [threads EXCEPT ![w] = IdleThread]
    /\ UNCHANGED <<metadata, metadata_file, cache_dir, config, now, last, metadata_temp>>

\* return filename: the worker is free.
ReturnStep(w) ==
    /\ threads[w].pc = "return"
    /\ threads' = [threads EXCEPT ![w] = IdleThread]
    /\ UNCHANGED <<metadata, metadata_file, cache_dir, config, now, last, temp_files, metadata_temp>>

\* The process is killed while a worker is inside save_audio: the files stay
\* as they are, nothing in memory survives and no worker takes another step.
Crash ==
    /\ \E w \in Workers : threads[w].pc \notin {"idle", "killed"}
    /\ threads' = [w \in Workers |-> [IdleThread EXCEPT !.pc = "killed"]]
    /\ metadata' = NotLoaded
    /\ UNCHANGED <<metadata_file, cache_dir, config, now, last, temp_files, metadata_temp>>

WorkerNext ==
    \E w \in Workers :
        \/ CallSaveAudio(w) \/ OpenTemp(w) \/ WriteTemp(w) \/ WriteFails(w) \/ ReplaceTemp(w)
        \/ AddFileStep(w) \/ BuildData(w) \/ OpenIndexTemp(w) \/ DumpIndex(w) \/ ReplaceIndex(w)
        \/ ExceptStep(w) \/ ReturnStep(w)

WorkersNext == WorkerNext \/ Crash \/ Tick

\* A new process on a new cache directory, with the default model and fallback.
WorkersInit == Init /\ config.model = DefaultConfig.model /\ config.enable_fallback

WorkersSpec == WorkersInit /\ [][WorkersNext]_vars


\* ------------------------------------------------------------------------
\* The maintenance operations on a cache directory that is saved to, changed
\* from outside and left behind by killed processes, over days
\* ------------------------------------------------------------------------
\* The instants at which something happens: the first MaxTime seconds, one
\* second more than the grace period of temp files after the start, and the
\* MaxTime + 1 seconds that follow the retention period after the start.
Instants ==
    (0..MaxTime) \cup {TEMP_FILE_CLEANUP_HOURS * 3600 + 1}
    \cup {config.cache_days * 24 * 3600 + s : s \in 1..(MaxTime + 1)}

\* The bytes save_audio is called with: audio, or nothing.
MaintDatas == {PutData, NoAudio}

\* The bytes something other than the cache manager puts into a file.
ForeignData == [src |-> NoCall, size |-> 3000]

\* The conditions of the cache directory for the index write of an operation.
IndexIO == {"ok", "index_write_fails"}

\* The index temp file after an operation: os.replace has consumed it when
\* the operation wrote the index.
IndexTempAfter(wrote) == IF wrote THEN NoIndexTemp ELSE metadata_temp

\* Time passes.
Advance ==
    /\ Idle
    /\ \E t \in Instants : t > now /\ now' = t
    /\ last' = Other
    /\ UNCHANGED <<metadata, metadata_file, cache_dir, config, temp_files, metadata_temp, threads>>

\* save_audio returned r for filename; its result is taken at once.
PutDone(r, filename) ==
    /\ Cardinality(DOMAIN r.st.cache_dir) <= MaxFiles
    /\ Len(r.st.metadata.files) <= MaxFiles
    /\ metadata' = r.st.metadata
    /\ metadata_file' = r.st.metadata_file
    /\ cache_dir' = r.st.cache_dir
    /\ temp_files' = RemoveTemp(temp_files, filename)
    /\ metadata_temp' = NoIndexTemp
    /\ last' = Other
    /\ UNCHANGED <<config, now, threads>>

\* save_audio(cache_key, audio_data) on a writable cache directory.
PutAnyAudio ==
    /\ Idle
    /\ \E cache_key \in WorkerKeys, audio_data \in MaintDatas :
         PutDone(SaveAudio(State, cache_key, audio_data, now, "ok"), AudioFilename(cache_key, now))

\* The process was killed inside save_audio(cache_key, PutData) after the
\* temp file was written and before os.replace, and has been started again.
KilledBeforeRename(filename) ==
    /\ Cardinality(DOMAIN temp_files \cup {filename}) + (IF metadata_temp.exists THEN 1 ELSE 0) <= MaxTemps
    /\ temp_files' = [f \in DOMAIN temp_files \cup {filename} |->
                        IF f = filename THEN [data |-> PutData, ctime |-> now] ELSE temp_files[f]]
    /\ metadata' = NotLoaded
    /\ last' = Other
    /\ UNCHANGED <<metadata_file, cache_dir, config, now, metadata_temp, threads>>

\* The process was killed inside the _save_metadata of a save_audio that had
\* got to r, after the index temp file was written and before os.replace,
\* and has been started again.
KilledBeforeIndexRename(r, filename) ==
    /\ Cardinality(DOMAIN r.st.cache_dir) <= MaxFiles
    /\ Cardinality(DOMAIN temp_files \ {filename}) + 1 <= MaxTemps
    /\ cache_dir' = r.st.cache_dir
    /\ temp_files' = RemoveTemp(temp_files, filename)
    /\ metadata_temp' = [exists |-> TRUE, content |-> SerializeMetadata(r.st.metadata), ctime |-> now]
    /\ metadata' = NotLoaded
    /\ last' = Other
    /\ UNCHANGED <<metadata_file, config, now, threads>>

\* A save_audio call that the death of the process interrupted between a
\* temp write and the rename that follows it.
InterruptedSave ==
    /\ Idle
    /\ \E cache_key \in WorkerKeys :
         \/ KilledBeforeRename(AudioFilename(cache_key, now))
         \/ KilledBeforeIndexRename(SaveAudio(State, cache_key, PutData, now, "index_write_fails"),
                                    AudioFilename(cache_key, now))

\* The bytes of a file of the cache directory are replaced by something
\* other than the cache manager.
ExternalWrite ==
    \E filename \in DOMAIN cache_dir :
        /\ Idle
        /\ cache_dir[filename] # ForeignData
        /\ cache_dir' = [cache_dir EXCEPT ![filename] = ForeignData]
        /\ last' = Other
        /\ UNCHANGED <<metadata, metadata_file, config, now, temp_files, metadata_temp, threads>>

\* A maintenance operation returned r.
MaintReturns(r, op, failing, io) ==
    /\ Applied(r, [Other EXCEPT !.op = op, !.failing = failing, !.io = io, !.report = r.report])
    /\ metadata_temp' = IndexTempAfter(r.report.saves > 0 /\ r.report.success)
    /\ UNCHANGED <<temp_files, threads>>

\* The files cleanup_expired_files calls os.remove on.
ExpiredOnDisk ==
    GetExpiredFiles(GetMetadata(State).metadata, now, config.cache_days) \cap DOMAIN cache_dir

\* cleanup_expired_files(), with the files os.remove fails on
CallCleanupExpiredFiles ==
    /\ Idle
    /\ \E failing \in SUBSET ExpiredOnDisk :
         MaintReturns(CleanupExpiredFiles(State, now, failing, "ok"), "cleanup_expired_files", failing, "ok")

\* cleanup_temp_files()
CallCleanupTempFiles ==
    /\ Idle
    /\ temp_files' = WithoutFiles(temp_files, RemovedTemps(temp_files, now))
    /\ metadata_temp' = IF IndexTempRemoved(metadata_temp, now) THEN NoIndexTemp ELSE metadata_temp
    /\ last' = [Other EXCEPT !.op = "cleanup_temp_files",
                             !.before = [metadata |-> metadata, metadata_file |-> metadata_file,
                                         cache_dir |-> cache_dir],
                             !.report = [success |-> TRUE,
                                         count |-> Cardinality(RemovedTemps(temp_files, now))
                                                   + (IF IndexTempRemoved(metadata_temp, now) THEN 1 ELSE 0),
                                         issues |-> {}, saves |-> 0]]
    /\ UNCHANGED <<metadata, metadata_file, cache_dir, config, now, threads>>

\* clear_cache returned r.
ClearReturns(r, failing, io) ==
    /\ Applied(r, [Other EXCEPT !.op = "clear_cache", !.failing = failing, !.io = io, !.report = r.report])
    /\ temp_files' = NoTempFiles
    /\ metadata_temp' = IndexTempAfter(r.report.success)
    /\ UNCHANGED threads

\* clear_cache(), with the files os.remove fails on
CallClearCache ==
    /\ Idle
    /\ \E failing \in SUBSET DOMAIN cache_dir, io \in IndexIO :
         ClearReturns(ClearCache(State, Cardinality(DOMAIN temp_files), failing, io), failing, io)

\* validate_cache_integrity()
CallValidateCacheIntegrity ==
    /\ Idle
    /\ MaintReturns(ValidateCacheIntegrity(State), "validate_cache_integrity", {}, "ok")

\* repair_cache()
CallRepairCache ==
    /\ Idle
    /\ MaintReturns(RepairCache(State, "ok"), "repair_cache", {}, "ok")

MaintNext ==
    \/ PutAnyAudio \/ InterruptedSave \/ ExternalDelete \/ ExternalWrite \/ Advance
    \/ CallCleanupExpiredFiles \/ CallCleanupTempFiles \/ CallClearCache
    \/ CallValidateCacheIntegrity \/ CallRepairCache \/ Deliver

MaintSpec == WorkersInit /\ [][MaintNext]_vars

\* The expiry of entries alone: saves, outside deletions and the clock.
ExpiryNext ==
    PutAnyAudio \/ ExternalDelete \/ Advance \/ CallCleanupExpiredFiles \/ Deliver

ExpirySpec == WorkersInit /\ [][ExpiryNext]_vars

\* The integrity of the cache alone: saves, outside deletions and rewrites,
\* clear_cache with failing removals, validation and repair, within seconds.
IntegrityNext ==
    \/ PutAnyAudio \/ ExternalDelete \/ ExternalWrite \/ Tick
    \/ CallClearCache \/ CallValidateCacheIntegrity \/ CallRepairCache \/ Deliver

IntegritySpec == WorkersInit /\ [][IntegrityNext]_vars


\* The index in memory and on disk: saves and lookups whose result the
\* caller sees, expiry, repair and clear_cache, outside deletions, the clock.
\* save_audio(cache_key, audio_data) and get_cached_file(cache_key) for the
\* key of the cached requests.
SaveOneKey ==
    /\ Idle
    /\ \E cache_key \in WorkerKeys :
         PutReturns(cache_key, SaveAudio(State, cache_key, PutData, now, "ok"))

\* save_audio(cache_key, audio_data) with the audio of one API call or of another.
SaveAnyAudio ==
    /\ Idle
    /\ \E cache_key \in WorkerKeys, audio_data \in PutDatas :
         PutReturns(cache_key, SaveAudio(State, cache_key, audio_data, now, "ok"))

LookupOneKey ==
    /\ Idle
    /\ \E cache_key \in WorkerKeys :
         LookupReturns(cache_key, GetCachedFile(State, cache_key, now, "ok"))

IndexNext ==
    \/ SaveOneKey \/ LookupOneKey \/ ExternalDelete \/ Advance
    \/ CallCleanupExpiredFiles \/ CallRepairCache \/ CallClearCache \/ Deliver

IndexSpec == WorkersInit /\ [][IndexNext]_vars

\* The entries of one key: saves of different audio, lookups, the clock.
EntriesNext == SaveAnyAudio \/ LookupOneKey \/ ExternalDelete \/ Tick \/ Deliver

EntriesSpec == WorkersInit /\ [][EntriesNext]_vars

\* save_audio(cache_key, audio_data) on a cache directory that is writable,
\* or where the write of the audio or that of the index fails.
SaveOnFailingCache ==
    /\ Idle
    /\ \E cache_key \in WorkerKeys, audio_data \in PutDatas, io \in IOConds :
         LET r == SaveAudio(State, cache_key, audio_data, now, io) IN
         Returns(r, [Other EXCEPT !.op = "save_audio", !.cache_key = cache_key,
                                  !.ret = r.filename, !.io = io])

\* Saves that can fail, lookups, the clock.
SaveFaultsNext == SaveOnFailingCache \/ LookupOneKey \/ Tick \/ Deliver

SaveFaultsSpec == WorkersInit /\ [][SaveFaultsNext]_vars

\* cleanup_expired_files() when every os.remove succeeds.
CleanupOnQuietCache ==
    /\ Idle
    /\ MaintReturns(CleanupExpiredFiles(State, now, {}, "ok"), "cleanup_expired_files", {}, "ok")

\* clear_cache() when every os.remove and the index write succeed.
ClearQuietCache ==
    /\ Idle
    /\ ClearReturns(ClearCache(State, Cardinality(DOMAIN temp_files), {}, "ok"), {}, "ok")

\* The cache with nothing failing and nothing changed from outside: saves,
\* lookups, expiry, repair and clear_cache, over days.
QuietNext ==
    \/ SaveAnyAudio \/ LookupOneKey \/ Advance
    \/ CleanupOnQuietCache \/ CallRepairCache \/ ClearQuietCache \/ Deliver

QuietSpec == WorkersInit /\ [][QuietNext]_vars

\* A new process starts on the cache directory after its index file was
\* damaged: the file is there and json.load raises on it.
StartOnUnreadableIndex ==
    /\ Idle
    /\ metadata_file.exists
    /\ metadata_file # TruncatedIndexFile
    /\ metadata' = NotLoaded
    /\ metadata_file' = TruncatedIndexFile
    /\ last' = [Other EXCEPT !.op = "index_damaged",
                             !.before = [metadata |-> metadata, metadata_file |-> metadata_file,
                                         cache_dir |-> cache_dir]]
    /\ UNCHANGED <<cache_dir, config, now, temp_files, metadata_temp, threads>>

\* The cache over processes that find the index file unreadable: saves,
\* lookups, validation, repair, expiry and clear_cache with nothing failing.
UnreadableNext ==
    \/ SaveOneKey \/ LookupOneKey \/ StartOnUnreadableIndex \/ CallValidateCacheIntegrity
    \/ CallRepairCache \/ CleanupOnQuietCache \/ ClearQuietCache \/ Tick \/ Deliver

UnreadableSpec == WorkersInit /\ [][UnreadableNext]_vars

\* ------------------------------------------------------------------------
\* generate_audio on the workers of the executor, one generator for all
\* ------------------------------------------------------------------------
\* The arguments of _call_gemini_api in _generate_unified and in
\* _generate_traditional, read from the configuration when the call is made.
GeneratorCall(cfg, mode, text) ==
    IF mode = "unified"
    THEN [model_id |-> ModelDefinitions[cfg.model].model_id,
          prompt |-> BuildUnifiedPrompt(cfg, text),
          voice |-> cfg.voice, temperature |-> cfg.temperature,
          thinking_budget |-> cfg.thinking_budget, timeout |-> UNIFIED_TIMEOUT]
    ELSE [model_id |-> ModelDefinitions[cfg.model].model_id,
          prompt |-> BuildTraditionalPrompt(cfg, text),
          voice |-> cfg.voice, temperature |-> cfg.temperature,
          thinking_budget |-> 0, timeout |-> TRADITIONAL_TIMEOUT]

\* The request a worker is generating for: the one it was given, or the
\* fallback request of _handle_generation_error.
WorkerRequest(w) == [text |-> "Hello world", processing_mode |-> threads[w].mode, use_cache |-> TRUE]

\* What the API does with a call of a worker.
WorkerResponses == {AudioResponse(2000), HTTPError(500)}

\* Where a worker goes when a generation method returns: to the finally
\* clause of the _handle_generation_error that called it, or out of
\* generate_audio.
ReturnTo(w) == IF threads[w].originals # << >> THEN "restore" ELSE "done"

\* generate_audio(request) starts on worker w: the cache lookup, and the
\* return of a hit.
StartGenerate(w) ==
    /\ threads[w].pc = "idle"
    /\ \E mode \in Modes :
         LET request == [text |-> "Hello world", processing_mode |-> mode, use_cache |-> TRUE]
             r == TryCacheLookup(State, request, now, "ok")
         IN  /\ metadata' = r.st.metadata
             /\ metadata_file' = r.st.metadata_file
             /\ threads' = [threads EXCEPT ![w] =
                    IF r.result.success
                    THEN [IdleThread EXCEPT !.pc = "done", !.mode = mode, !.success = TRUE,
                                            !.filename = r.result.filename]
                    ELSE [IdleThread EXCEPT !.pc = "call", !.mode = mode]]
    /\ UNCHANGED <<cache_dir, config, now, last, temp_files, metadata_temp>>

\* _call_gemini_api of _generate_unified or _generate_traditional on worker w
CallApi(w) ==
    /\ threads[w].pc = "call"
    /\ \E resp \in WorkerResponses :
         LET r == CallGeminiApi(GeneratorCall(config, threads[w].mode, "Hello world"), resp) IN
         threads' = [threads EXCEPT ![w].pc = IF r.ok THEN "save" ELSE "check",
                                    ![w].audio_data = r.audio]
    /\ UNCHANGED <<metadata, metadata_file, cache_dir, config, now, last, temp_files, metadata_temp>>

\* _save_and_return on worker w: the key is derived from the configuration
\* as it is now.
SaveResult(w) ==
    /\ threads[w].pc = "save"
    /\ LET r == SaveAndReturn(State, WorkerRequest(w), threads[w].audio_data, threads[w].mode, now, "ok") IN
       /\ Cardinality(DOMAIN r.st.cache_dir) <= MaxFiles
       /\ Len(r.st.metadata.files) <= MaxFiles
       /\ metadata' = r.st.metadata
       /\ metadata_file' = r.st.metadata_file
       /\ cache_dir' = r.st.cache_dir
       /\ threads' = [threads EXCEPT ![w].pc = ReturnTo(w), ![w].success = TRUE,
                                      ![w].filename = r.result.filename]
    /\ UNCHANGED <<config, now, last, temp_files, metadata_temp>>

\* The condition of _handle_generation_error on worker w (the error is not
\* a credentials or rate-limit error): on to the fallback, or the error
\* result.
CheckFallback(w) ==
    /\ threads[w].pc = "check"
    /\ threads' = [threads EXCEPT ![w].pc =
            IF config.enable_fallback /\ config.model # DEFAULT_FALLBACK_MODEL
            THEN "read_original" ELSE ReturnTo(w)]
    /\ UNCHANGED <<metadata, metadata_file, cache_dir, config, now, last, temp_files, metadata_temp>>

\* original_model = self.config.model
ReadOriginal(w) ==
    /\ threads[w].pc = "read_original"
    /\ threads' = [threads EXCEPT ![w].pc = "set_fallback",
                                   ![w].originals = <<config.model>> \o @]
    /\ UNCHANGED <<metadata, metadata_file, cache_dir, config, now, last, temp_files, metadata_temp>>

\* self.config.model = DEFAULT_FALLBACK_MODEL, and the fallback request
SetFallback(w) ==
    /\ threads[w].pc = "set_fallback"
    /\ config' = [config EXCEPT !.model = DEFAULT_FALLBACK_MODEL]
    /\ threads' = [threads EXCEPT ![w].pc = "call", ![w].mode = "traditional"]
    /\ UNCHANGED <<metadata, metadata_file, cache_dir, now, last, temp_files, metadata_temp>>

\* finally: self.config.model = original_model
RestoreModel(w) ==
    /\ threads[w].pc = "restore"
    /\ config' = [config EXCEPT !.model = Head(threads[w].originals)]
    /\ threads' = [threads EXCEPT ![w].originals = Tail(@),
                                   ![w].pc = IF Tail(threads[w].originals) # << >> THEN "restore" ELSE "done"]
    /\ UNCHANGED <<metadata, metadata_file, cache_dir, now, last, temp_files, metadata_temp>>

\* Each worker runs one generate_audio call; its result stays with it.
GeneratorsNext ==
    \E w \in Workers :
        \/ StartGenerate(w) \/ CallApi(w) \/ SaveResult(w) \/ CheckFallback(w)
        \/ ReadOriginal(w) \/ SetFallback(w) \/ RestoreModel(w)

GeneratorsSpec == WorkersInit /\ [][GeneratorsNext]_vars

\* ------------------------------------------------------------------------
\* generate_audio on a cache directory whose writes can fail
\* ------------------------------------------------------------------------
\* The outcomes of the API calls while the cache fails.
FaultResponses ==
    {AudioResponse(2000), AudioResponse(MIN_AUDIO_SIZE - 1), AudioResponse(MAX_AUDIO_SIZE + 1),
     NoCandidates, BadJson, HTTPError(500), URLError("timed out"), ReadTimeout}

\* What the index write of the lookup can meet.
LookupIOConds == {"ok", "index_write_fails"}

\* AudioGenerator.generate_audio where the write of the lookup meets
\* lookup_io and the writes of save_audio meet io.
GenerateAudioOnFaults(st, request, outs, t, lookup_io, io) ==
    IF request.use_cache
    THEN AfterLookup(TryCacheLookup(st, request, t, lookup_io), request, outs, t, io)
    ELSE GenerateNew(st, request, outs, t, io)

\* generate_audio(request) while the cache directory refuses writes.
GenerateAudioOnFailingCache ==
    /\ Idle
    /\ \E request \in Requests, primary \in FaultResponses, fallback \in FaultResponses,
          lookup_io \in LookupIOConds, io \in IOConds :
         LET r == GenerateAudioOnFaults(State, request, <<primary, fallback>>, now, lookup_io, io) IN
         Returns(r, [GenerateAudioRecord(request, <<primary, fallback>>, r)
                        EXCEPT !.io = io, !.lookup_io = lookup_io])

FaultsNext == GenerateAudioOnFailingCache \/ ExternalDelete \/ Deliver

FaultsSpec == WorkersInit /\ [][FaultsNext]_vars

\* ------------------------------------------------------------------------
\* The API client alone (_call_gemini_api)
\* ------------------------------------------------------------------------
\* The statuses urlopen raises HTTPError with.
HttpStatuses == {400, 401, 403, 404, 429, 500, 503}

\* What urlopen and response.read() can do for a call.
ClientResponses ==
    {AudioResponse(2000), AudioResponse(MIN_AUDIO_SIZE - 1), AudioResponse(MAX_AUDIO_SIZE + 1),
     NoCandidates, BadJson, Status204, ReadTimeout}
    \cup {HTTPError(status) : status \in HttpStatuses}
    \cup {URLError(reason) : reason \in UrlErrorReasons}

\* The calls the generator makes under the configuration: those of its
\* primary and fallback attempts for each request.
ClientCalls ==
    UNION {LET calls == GenerateAudioOp(State, request, <<HTTPError(500)>>, now, "ok").st.calls
           IN  {calls[n] : n \in 1..Len(calls)} : request \in Requests}

\* _call_gemini_api(...) returned or raised.
CallGeminiApiOp ==
    /\ Idle
    /\ \E call \in ClientCalls, resp \in ClientResponses :
         LET r == CallGeminiApi(call, resp) IN
         last' = [Other EXCEPT !.op = "call_gemini_api", !.calls = <<call>>, !.outs = <<resp>>,
                               !.audio = r.audio, !.exc = r.exc]
    /\ UNCHANGED <<metadata, metadata_file, cache_dir, config, now, temp_files, metadata_temp, threads>>

ClientNext == CallGeminiApiOp \/ Deliver

ClientSpec == Init /\ [][ClientNext]_vars

\* ------------------------------------------------------------------------
\* The cache key alone (_generate_cache_key)
\* ------------------------------------------------------------------------
\* The configurations and requests keys are derived for: each field the key
\* reads takes two values.
KeyConfigs ==
    {[DefaultConfig EXCEPT !.model = m, !.voice = v, !.temperature = t, !.thinking_budget = b,
                           !.preprocessing_style = s, !.enable_style_control = e] :
        m \in ConfigModels, v \in {"Zephyr", "Puck"}, t \in {0, 1}, b \in {0, 128},
        s \in {"natural", "technical"}, e \in BOOLEAN}
KeyRequests == [text : {"Hello world", "Goodbye"}, processing_mode : Modes, use_cache : {TRUE}]

\* A generator constructed with any of the configurations.
KeyInit ==
    /\ metadata = NotLoaded
    /\ metadata_file = NoIndexFile
    /\ cache_dir = [f \in {} |-> NoAudio]
    /\ config \in KeyConfigs
    /\ now = 0
    /\ last = Other
    /\ temp_files = NoTempFiles
    /\ metadata_temp = NoIndexTemp
    /\ threads = [w \in Workers |-> IdleThread]

\* _generate_cache_key(request) returned: it reads the configuration and
\* the request and assigns nothing.
DeriveCacheKey ==
    /\ Idle
    /\ \E request \in KeyRequests :
         last' = [Other EXCEPT !.op = "generate_cache_key", !.request = request,
                               !.cache_key = GenerateCacheKey(config, request)]
    /\ UNCHANGED <<metadata, metadata_file, cache_dir, config, now, temp_files, metadata_temp, threads>>

KeyNext == DeriveCacheKey \/ Deliver

KeySpec == KeyInit /\ [][KeyNext]_vars

\* ------------------------------------------------------------------------
\* Properties
\* ------------------------------------------------------------------------
\* The state the last operation started from.
PreState == [metadata |-> last.before.metadata, metadata_file |-> last.before.metadata_file,
             cache_dir |-> last.before.cache_dir, config |-> config, calls |-> << >>]

\* The index the last operation started from, as the cache manager sees it.
PreFiles == GetMetadata(PreState).metadata.files

\* The outcomes a re-issued request is tried with.
OutcomeSeqs == {<<p, f>> : p \in PrimaryResponses, f \in FallbackResponses}

\* generate_audio(request) answered from the cache, without an API call, in
\* the current state, whatever the API would do and whenever it is issued.
AnsweredFromCache(request) ==
    \A outs \in OutcomeSeqs, t \in now..MaxTime :
        LET r == GenerateAudioOp(State, request, outs, t, "ok") IN
        /\ r.result.success
        /\ r.result.used_cache
        /\ Len(r.st.calls) = 0

\* The transport delivers a complete audio envelope of an accepted size.
ApiSucceeds(resp) ==
    /\ resp.t = "response" /\ resp.status = 200 /\ resp.body = "audio"
    /\ resp.size >= MIN_AUDIO_SIZE /\ resp.size <= MAX_AUDIO_SIZE

CredentialsFailure(resp) == resp.t = "HTTPError" /\ resp.status \in {401, 403}
RateLimitFailure(resp) == resp.t = "HTTPError" /\ resp.status = 429

FallbackModelId == ModelDefinitions[DEFAULT_FALLBACK_MODEL].model_id

\* C1: from an empty cache, generate_audio with use_cache = true and a
\* successful API call makes exactly one API call, returns success with
\* used_cache = false and adds one entry to the index; the same request
\* issued again is then a success with used_cache = true and no API call.
C1_GenerateThenHit ==
    (/\ last.op = "generate_audio"
     /\ last.request.use_cache
     /\ PreFiles = << >> /\ DOMAIN last.before.cache_dir = {}
     /\ ApiSucceeds(last.outs[1]))
    => /\ Len(last.calls) = 1
       /\ last.result.success /\ ~last.result.used_cache
       /\ Len(metadata.files) = 1 /\ Len(metadata_file.files) = 1
       /\ AnsweredFromCache(last.request)

C1_Witness ==
    /\ last.op = "generate_audio"
    /\ last.request.use_cache
    /\ PreFiles = << >> /\ DOMAIN last.before.cache_dir = {}
    /\ ApiSucceeds(last.outs[1])
    /\ Len(last.calls) = 1
    /\ Len(metadata.files) = 1

\* C2: after a failed primary call, generate_audio calls the fallback model
\* exactly when fallback is enabled, the configured model is not the
\* fallback model and the failure is neither a credentials nor a rate-limit
\* error; then it makes exactly one call, to the fallback model, and
\* otherwise none.
C2_FallbackExactlyWhenEligible ==
    (/\ last.op = "generate_audio"
     /\ Len(last.calls) >= 1
     /\ ~ApiSucceeds(last.outs[1]))
    => LET eligible == /\ config.enable_fallback
                       /\ config.model # DEFAULT_FALLBACK_MODEL
                       /\ ~CredentialsFailure(last.outs[1])
                       /\ ~RateLimitFailure(last.outs[1])
       IN  /\ eligible => Len(last.calls) = 2 /\ last.calls[2].model_id = FallbackModelId
           /\ ~eligible => Len(last.calls) = 1

C2_Witness ==
    /\ last.op = "generate_audio"
    /\ last.outs[1] = URLError("timed out")
    /\ Len(last.calls) = 2
    /\ last.calls[2].model_id = FallbackModelId

\* C3: one generate_audio makes at most two API calls, at most one of them
\* to the fallback model.
C3_AtMostTwoCalls ==
    last.op = "generate_audio"
    => /\ Len(last.calls) <= 2
       /\ Cardinality({i \in 1..Len(last.calls) : last.calls[i].model_id = FallbackModelId}) <= 1

C3_Witness ==
    /\ last.op = "generate_audio"
    /\ Len(last.calls) = 2
    /\ ~ApiSucceeds(last.outs[2])
    /\ ~last.result.success

\* C4: when the primary call and the fallback call both fail, the result
\* is a failure and its error is that of the primary call.
C4_PrimaryErrorReported ==
    (/\ last.op = "generate_audio"
     /\ Len(last.calls) = 2
     /\ ~ApiSucceeds(last.outs[1]) /\ ~ApiSucceeds(last.outs[2]))
    => /\ ~last.result.success
       /\ last.result.error_message = CallGeminiApi(last.calls[1], last.outs[1]).exc.user_message

C4_Witness ==
    /\ last.op = "generate_audio"
    /\ Len(last.calls) = 2
    /\ ~last.result.success
    /\ last.result.error_message # CallGeminiApi(last.calls[2], last.outs[2]).exc.user_message

\* C5: an HTTP 400 answer to the primary call is not followed by a call to
\* the fallback model.  The code does make that call.
C5_BadRequestNotRetried ==
    (/\ last.op = "generate_audio"
     /\ Len(last.calls) >= 1
     /\ last.outs[1] = HTTPError(400))
    => Len(last.calls) = 1

\* The entries of the index that the last operation wrote: those that were
\* not in the index it started from.
WrittenEntries ==
    {i \in 1..Len(metadata.files) : \A j \in 1..Len(PreFiles) : PreFiles[j] # metadata.files[i]}

\* C6: when the primary call fails and the fallback call succeeds with
\* caching on, the entry written carries the key of what produced the bytes
\* (the fallback model, traditional mode, thinking budget 0) and the bytes of
\* the fallback call; no entry is written under the key of the request as
\* it was issued.
C6_FallbackEntryKey ==
    (/\ last.op = "generate_audio"
     /\ last.request.use_cache
     /\ Len(last.calls) = 2
     /\ ApiSucceeds(last.outs[2]))
    => /\ last.result.success
       /\ last.result.filename \in DOMAIN cache_dir
       /\ cache_dir[last.result.filename].src = last.calls[2]
       /\ last.calls[2].model_id = FallbackModelId
       /\ last.calls[2].prompt.kind = "traditional"
       /\ last.calls[2].thinking_budget = 0
       /\ \E i \in 1..Len(metadata.files) :
            /\ metadata.files[i].filename = last.result.filename
            /\ metadata.files[i].created = now
            /\ metadata.files[i].cache_key.text = last.request.text
            /\ metadata.files[i].cache_key.model = DEFAULT_FALLBACK_MODEL
            /\ metadata.files[i].cache_key.mode = "traditional"
            /\ metadata.files[i].cache_key.thinking_budget = 0
       /\ \A i \in WrittenEntries :
            /\ metadata.files[i].filename = last.result.filename
            /\ metadata.files[i].cache_key # GenerateCacheKey(config, last.request)
       /\ metadata_file = SerializeMetadata(metadata)

C6_Witness ==
    /\ last.op = "generate_audio"
    /\ last.request.use_cache
    /\ last.request.processing_mode = "unified"
    /\ Len(last.calls) = 2
    /\ last.result.success
    /\ WrittenEntries # {}

\* C7: after a request has been served by the fallback and cached, the same
\* request issued again under the same configuration is answered from the
\* cache, without an API call.  The code looks the request up under its own
\* key, misses, and calls the API again.
C7_ReissueAfterFallbackHits ==
    (/\ last.op = "generate_audio"
     /\ last.request.use_cache
     /\ Len(last.calls) = 2
     /\ last.result.success
     /\ last.result.filename # NoFile)
    => AnsweredFromCache(last.request)

\* C8: a request with use_cache = false is never looked up and never
\* written, on the primary path and on the fallback path: the index in
\* memory, the index on disk and the cache directory are what they were,
\* and the API is called whatever the cache holds.
C8_NoCacheUse ==
    (last.op = "generate_audio" /\ ~last.request.use_cache)
    => /\ metadata = last.before.metadata
       /\ metadata_file = last.before.metadata_file
       /\ cache_dir = last.before.cache_dir
       /\ Len(last.calls) >= 1
       /\ ~last.result.used_cache
       /\ last.result.filename = NoFile

C8_Witness ==
    /\ last.op = "generate_audio"
    /\ ~last.request.use_cache
    /\ Len(last.calls) = 2
    /\ last.result.success
    /\ \E i \in 1..Len(PreFiles) :
         /\ PreFiles[i].cache_key = GenerateCacheKey(config, last.request)
         /\ PreFiles[i].filename \in DOMAIN last.before.cache_dir

\* The positions of the entries with the key of the last lookup, in the
\* index it started from, and those of them whose file was missing.
Matches == {i \in 1..Len(PreFiles) : PreFiles[i].cache_key = last.cache_key}
StaleMatches == {i \in Matches : PreFiles[i].filename \notin DOMAIN last.before.cache_dir}
FirstMatch == CHOOSE i \in Matches : \A j \in Matches : i <= j

\* No entry of the index, in memory or on disk, names the file.
Gone(filename) ==
    /\ \A i \in 1..Len(metadata.files) : metadata.files[i].filename # filename
    /\ \A i \in 1..Len(metadata_file.files) : metadata_file.files[i][1] # filename

\* No lookup returns the name of a file that did not exist when it was checked.
NoDanglingHit ==
    /\ (last.op = "get_cached_file" /\ last.ret # NoFile)
       => last.ret \in DOMAIN last.before.cache_dir
    /\ (last.op = "generate_audio" /\ last.result.used_cache)
       => last.result.filename \in DOMAIN last.before.cache_dir

WithoutAccess(files) == [i \in 1..Len(files) |-> [files[i] EXCEPT !.accessed = 0]]

\* From the index before to the index after, the entries are the same and
\* only the one named filename may have a new access time.
OnlyAccessOf(filename, before, after) ==
    /\ WithoutAccess(after) = WithoutAccess(before)
    /\ \A i \in 1..Len(before) : before[i].filename # filename => after[i] = before[i]

\* The last lookup and the same lookup made again, at any later time, return
\* the same filename and leave the entries of the index as they were, but
\* for the access time of the entry returned.
LookupRepeats ==
    /\ OnlyAccessOf(last.ret, PreFiles, metadata.files)
    /\ cache_dir = last.before.cache_dir
    /\ \A t \in now..MaxTime :
         LET r == GetCachedFile(State, last.cache_key, t, "ok") IN
         /\ r.ret = last.ret
         /\ OnlyAccessOf(last.ret, metadata.files, r.st.metadata.files)
         /\ r.st.cache_dir = cache_dir

\* C10 as stated: repeated get_cached_file(k) on a store nothing else
\* modifies return the same filename and leave the set of index entries
\* unchanged; only the access time of the entry that is hit changes.
C10_LookupIdempotent == last.op = "get_cached_file" => LookupRepeats

\* C10, amended: the same, for a key that has no entry in the index or
\* whose first entry has its file on disk (a lookup that meets a stale
\* entry removes it).
C10_HitIdempotent ==
    (last.op = "get_cached_file" /\ (Matches = {} \/ FirstMatch \notin StaleMatches))
    => LookupRepeats

C10_Witness ==
    /\ last.op = "get_cached_file"
    /\ last.ret # NoFile
    /\ metadata.files # PreFiles
    /\ Len(metadata.files) = 2

\* C11: at every step of save_audio on the workers, a crash or a failed
\* write included, every file under a final filename holds the complete
\* bytes given to some save_audio call, and when save_audio is about to
\* return a filename the file of that name holds the bytes it was given.
C11_AtomicWrite ==
    /\ \A f \in DOMAIN cache_dir : cache_dir[f] \in PutDatas
    /\ \A w \in Workers :
         threads[w].pc = "return" =>
            /\ threads[w].filename \in DOMAIN cache_dir
            /\ cache_dir[threads[w].filename] = threads[w].audio_data

\* C12: a save_audio call that returned a filename returned one that no
\* entry of the index it started from has and that no file of the cache
\* directory it started from has: nothing was overwritten.
C12_FreshFilename ==
    (last.op = "save_audio" /\ last.ret # NoFile) =>
        /\ last.ret \notin DOMAIN last.before.cache_dir
        /\ \A i \in 1..Len(PreFiles) : PreFiles[i].filename # last.ret

\* The retention period in seconds.
RetentionSeconds == config.cache_days * 24 * 3600

\* The entries of the index the last operation started from that are older
\* than the retention period.
Older == {i \in 1..Len(PreFiles) : now - PreFiles[i].created > RetentionSeconds}

\* C13: when no file removal fails, cleanup_expired_files removes from the
\* index exactly the entries older than cache_days days, in index order, and
\* exactly their files from the directory; an entry exactly cache_days days
\* old or younger and every other file stay; the returned count is the
\* number of entries removed.
C13_ExactlyOlderEvicted ==
    (last.op = "cleanup_expired_files" /\ last.failing = {}) =>
        /\ GetMetadata(State).metadata.files =
              [j \in 1..(Len(PreFiles) - Cardinality(Older)) |->
                  PreFiles[CHOOSE i \in 1..Len(PreFiles) \ Older :
                              Cardinality({k \in 1..i : k \notin Older}) = j]]
        /\ DOMAIN cache_dir = DOMAIN last.before.cache_dir \ {PreFiles[i].filename : i \in Older}
        /\ \A f \in DOMAIN cache_dir : cache_dir[f] = last.before.cache_dir[f]
        /\ last.report.count = Cardinality(Older)
        /\ last.report.count = Len(PreFiles) - Len(metadata.files)

\* cleanup_expired_files ran on an index with an entry exactly cache_days
\* days old, which it kept, and an older one, which it removed with its file.
C13_Witness ==
    /\ last.op = "cleanup_expired_files" /\ last.failing = {}
    /\ \E i \in 1..Len(PreFiles) :
         /\ now - PreFiles[i].created = RetentionSeconds
         /\ \E j \in 1..Len(metadata.files) : metadata.files[j] = PreFiles[i]
    /\ \E i \in Older :
         /\ PreFiles[i].filename \in DOMAIN last.before.cache_dir
         /\ PreFiles[i].filename \notin DOMAIN cache_dir
    /\ last.report.count = 1

\* The entries of an index, as a set
Entries(files) == {files[i] : i \in 1..Len(files)}

\* C14: when os.remove fails on files of expired entries, cleanup_expired_files
\* keeps those entries and files, still removes every other expired entry
\* with its file, and calls _save_metadata at most once, after the loop:
\* once when an entry was removed, and the index file then holds the index
\* without all the removed entries.
C14_FailedRemovalSkipped ==
    (last.op = "cleanup_expired_files" /\ last.failing # {}) =>
        /\ \A i \in 1..Len(PreFiles) :
              PreFiles[i] \in Entries(metadata.files)
                 <=> (i \notin Older \/ PreFiles[i].filename \in last.failing)
        /\ last.failing \subseteq DOMAIN cache_dir
        /\ \A i \in Older : PreFiles[i].filename \notin last.failing
                               => PreFiles[i].filename \notin DOMAIN cache_dir
        /\ last.report.saves = IF \E i \in Older : PreFiles[i].filename \notin last.failing
                               THEN 1 ELSE 0
        /\ last.report.saves = 1 => metadata_file = SerializeMetadata(metadata)
        /\ last.report.count = Len(PreFiles) - Len(metadata.files)

\* cleanup_expired_files ran on two expired entries with files; the removal
\* of one file failed and the other entry was removed and the index written.
C14_Witness ==
    /\ last.op = "cleanup_expired_files" /\ last.failing # {}
    /\ \E i \in Older : PreFiles[i].filename \in last.failing
    /\ \E i \in Older :
         /\ PreFiles[i].filename \in DOMAIN last.before.cache_dir \ last.failing
         /\ PreFiles[i] \notin Entries(metadata.files)
    /\ last.report.saves = 1
    /\ last.report.count = 1

\* The entries of the index the last operation started from whose file was
\* missing from the directory it started from.
MissingBefore == {i \in 1..Len(PreFiles) : PreFiles[i].filename \notin DOMAIN last.before.cache_dir}

\* The issues a validate_cache_integrity call reports in the current state.
IssuesNow == ValidateCacheIntegrity(State).report.issues

\* The orphaned-file issues of the cache the last operation started from.
OrphansBefore ==
    {Issue("Orphaned file", f) :
        f \in DOMAIN last.before.cache_dir \ {PreFiles[i].filename : i \in 1..Len(PreFiles)}}

\* C15: repair_cache removes from the index exactly the entries whose file
\* is missing, writes the index when it removed any, and deletes no file; a
\* validate_cache_integrity that follows reports the same orphaned files as
\* before and no missing file.
C15_RepairDropsMissingOnly ==
    last.op = "repair_cache" =>
        /\ last.report.success
        /\ \A i \in 1..Len(PreFiles) :
              PreFiles[i] \in Entries(metadata.files) <=> i \notin MissingBefore
        /\ Len(metadata.files) = Len(PreFiles) - Cardinality(MissingBefore)
        /\ last.report.count = Cardinality(MissingBefore)
        /\ MissingBefore # {} => metadata_file = SerializeMetadata(metadata)
        /\ cache_dir = last.before.cache_dir
        /\ {i \in IssuesNow : i.kind = "Orphaned file"} = OrphansBefore
        /\ {i \in IssuesNow : i.kind = "Missing file"} = {}

\* repair_cache ran on a cache with an entry whose file was missing and with
\* an orphaned file: the entry is gone, the orphaned file is still there and
\* still reported.
C15_Witness ==
    /\ last.op = "repair_cache"
    /\ MissingBefore # {}
    /\ OrphansBefore # {}
    /\ Len(metadata.files) < Len(PreFiles)
    /\ \E i \in IssuesNow : i.kind = "Orphaned file" /\ i.filename \in DOMAIN cache_dir

\* The entries of the index the last operation started from whose file was
\* there with a size other than the recorded one.
SizeDiffers ==
    {i \in 1..Len(PreFiles) :
        /\ PreFiles[i].filename \in DOMAIN last.before.cache_dir
        /\ last.before.cache_dir[PreFiles[i].filename].size # PreFiles[i].file_size}

\* validate_cache_integrity changed neither the index contents, in memory or
\* on disk, nor any file.
ValidateChangedNothing ==
    /\ GetMetadata(State).metadata.files = PreFiles
    /\ metadata_file = last.before.metadata_file
    /\ cache_dir = last.before.cache_dir

\* C16 as stated: validate_cache_integrity reports a missing-file issue for
\* every entry whose file is missing, a size-mismatch issue for every entry
\* whose recorded size differs from the size of its file, and an orphaned-file
\* issue for every audio file without an entry, and changes nothing.
C16_EveryMismatchReported ==
    last.op = "validate_cache_integrity" =>
        /\ \A i \in MissingBefore : Issue("Missing file", PreFiles[i].filename) \in last.report.issues
        /\ \A i \in SizeDiffers : Issue("Size mismatch", PreFiles[i].filename) \in last.report.issues
        /\ OrphansBefore \subseteq last.report.issues
        /\ ValidateChangedNothing

\* C16, amended: the size-mismatch issue is reported for exactly the entries
\* whose recorded size is not 0 and differs from the size of the file; the
\* missing-file and orphaned-file issues are reported for exactly the entries
\* without a file and the audio files without an entry; nothing is changed.
C16_NonzeroMismatchReported ==
    last.op = "validate_cache_integrity" =>
        /\ last.report.success
        /\ {i \in last.report.issues : i.kind = "Missing file"}
              = {Issue("Missing file", PreFiles[i].filename) : i \in MissingBefore}
        /\ {i \in last.report.issues : i.kind = "Size mismatch"}
              = {Issue("Size mismatch", PreFiles[i].filename) :
                    i \in {j \in SizeDiffers : PreFiles[j].file_size > 0}}
        /\ {i \in last.report.issues : i.kind = "Orphaned file"} = OrphansBefore
        /\ ValidateChangedNothing

\* validate_cache_integrity ran on a cache with an entry of a nonzero recorded
\* size whose file had another size, which it reported, and an orphaned file.
C16_Witness ==
    /\ last.op = "validate_cache_integrity"
    /\ \E i \in SizeDiffers :
         /\ PreFiles[i].file_size > 0
         /\ Issue("Size mismatch", PreFiles[i].filename) \in last.report.issues
    /\ OrphansBefore # {}
    /\ OrphansBefore \subseteq last.report.issues

\* C17: after clear_cache returned a success result the index is empty in
\* memory and on disk and the cache directory holds no audio file.
C17_ClearedMeansEmpty ==
    (last.op = "clear_cache" /\ last.report.success) =>
        /\ metadata.loaded /\ metadata.files = << >>
        /\ metadata_file = SerializeMetadata(CacheMetadata)
        /\ DOMAIN cache_dir = {}

\* C18: after cleanup_temp_files no temp file of save_audio or of
\* _save_metadata that is older than the grace period is left in the cache
\* directory.
C18_AbandonedTempsRemoved ==
    last.op = "cleanup_temp_files" =>
        /\ \A f \in DOMAIN temp_files : now - temp_files[f].ctime <= TEMP_FILE_CLEANUP_HOURS * 3600
        /\ metadata_temp.exists => now - metadata_temp.ctime <= TEMP_FILE_CLEANUP_HOURS * 3600

\* No worker is inside save_audio and the process has not been killed.
Quiescent == \A w \in Workers : threads[w].pc = "idle"

\* C19: save_audio calls that run on two workers behave as if run one at a
\* time: none ends in the except clause without a write having failed, and
\* once all have returned the index file holds the index in memory, with an
\* entry for every audio file they saved.
C19_AsIfOneAtATime ==
    /\ \A w \in Workers : threads[w].exc \in {"", "OSError"}
    /\ Quiescent =>
          /\ metadata.loaded => metadata_file = SerializeMetadata(metadata)
          /\ \A f \in DOMAIN cache_dir : \E i \in 1..Len(metadata_file.files) : metadata_file.files[i][1] = f

\* C20: at every step of every interleaving of the _save_metadata calls of
\* the workers, the index file, when it exists, holds a complete JSON
\* document written from the index.
C20_IndexFileNeverPartial ==
    metadata_file.exists => metadata_file # TruncatedIndexFile

\* The lookup of the last generate_audio found a cached file and could not
\* write the index: get_cached_file returned None.
LookupFailed ==
    /\ last.op = "generate_audio"
    /\ last.request.use_cache
    /\ last.lookup_io = "index_write_fails"
    /\ GetCachedFile(PreState, GenerateCacheKey(config, last.request), now, "ok").ret # NoFile

\* A call of the last generate_audio returned audio and the cache write
\* that followed failed.
WriteFailed ==
    /\ last.op = "generate_audio"
    /\ last.request.use_cache
    /\ last.io # "ok"
    /\ Len(last.outs) >= 1
    /\ ApiSucceeds(last.outs[Len(last.outs)])

\* C21: a cache failure does not abort generate_audio: a lookup that fails
\* is a miss, after which the API is called, and a cache write that fails
\* after a successful API call still gives a result with success = true.
C21_CacheFailuresDoNotAbort ==
    /\ LookupFailed => (Len(last.calls) >= 1 /\ ~last.result.used_cache)
    /\ WriteFailed => (last.result.success /\ ~last.result.used_cache)

C21_Witness ==
    /\ LookupFailed
    /\ WriteFailed
    /\ last.io = "index_write_fails"
    /\ last.result.success

\* C22: every result with success = true of a generate_audio that uses the
\* cache gives the caller the audio, also when the cache write failed after
\* a successful API call: its filename names a file of the cache directory
\* that holds the bytes a call of the operation produced (or, on a hit, the
\* cached bytes).
C22_AudioReturned ==
    (last.op = "generate_audio" /\ last.request.use_cache /\ last.result.success)
    => /\ last.result.filename \in DOMAIN cache_dir
       /\ \/ last.result.used_cache
          \/ \E n \in 1..Len(last.calls) : cache_dir[last.result.filename].src = last.calls[n]

\* The transport delivers a complete audio envelope whose decoded audio has
\* a size outside [MIN_AUDIO_SIZE, MAX_AUDIO_SIZE].
SizeRejected(resp) ==
    /\ resp.t = "response" /\ resp.status = 200 /\ resp.body = "audio"
    /\ (resp.size < MIN_AUDIO_SIZE \/ resp.size > MAX_AUDIO_SIZE)

\* C24: an API call answered by a 200 response whose decoded audio is
\* smaller than MIN_AUDIO_SIZE or larger than MAX_AUDIO_SIZE fails, and the
\* exception it raises is an AudioSizeException.
C24_SizeErrorKind ==
    \A n \in 1..Len(last.calls) :
        SizeRejected(last.outs[n])
        => LET r == CallGeminiApi(last.calls[n], last.outs[n]) IN
           ~r.ok /\ IsInstance(r.exc.cls, "AudioSizeException")

\* The size lies within what _extract_audio_data accepts.
AcceptedSize(size) == size >= MIN_AUDIO_SIZE /\ size <= MAX_AUDIO_SIZE

\* C25: the cache filled through generate_audio, on its primary and on its
\* fallback path, holds only audio of a size within [MIN_AUDIO_SIZE,
\* MAX_AUDIO_SIZE]: each file and each index entry has such a size, and the
\* bytes of each file are those of a call that was answered by a complete
\* envelope of an accepted size, never those of a rejected response.
C25_OnlyValidAudioCached ==
    /\ \A f \in DOMAIN cache_dir : AcceptedSize(cache_dir[f].size)
    /\ \A i \in 1..Len(metadata.files) : AcceptedSize(metadata.files[i].file_size)
    /\ last.op = "generate_audio"
       => \A f \in DOMAIN cache_dir :
            \/ f \in DOMAIN last.before.cache_dir /\ cache_dir[f] = last.before.cache_dir[f]
            \/ \E n \in 1..Len(last.calls) :
                 /\ cache_dir[f].src = last.calls[n]
                 /\ ApiSucceeds(last.outs[n])
                 /\ cache_dir[f].size = last.outs[n].size

\* A fallback call produced the entry after the primary call was answered
\* by audio of a rejected size.
C25_Witness ==
    /\ last.op = "generate_audio"
    /\ Len(last.calls) = 2
    /\ SizeRejected(last.outs[1])
    /\ last.result.filename \in DOMAIN cache_dir
    /\ last.result.filename \notin DOMAIN last.before.cache_dir

\* The exception is one _call_gemini_api's "except Exception" built.
IsRewrapped(exc) == exc.message # << >> /\ exc.message[1] = "API call failed: "

\* C26: an HTTP error status makes the API call raise the exception of its
\* kind: BadRequestException for 400, InvalidAPIKeyException for 401 and
\* 403, RateLimitedException for 429 and a plain APIException carrying the
\* status for every other one; it is raised as mapped, not wrapped into
\* another exception.
C26_StatusMapped ==
    (last.op = "call_gemini_api" /\ last.outs[1].t = "HTTPError")
    => LET status == last.outs[1].status
           cls == last.exc.cls
       IN  /\ last.audio = NoAudio
           /\ ~IsRewrapped(last.exc)
           /\ status = 400 => cls = "BadRequestException"
           /\ status \in {401, 403} => cls = "InvalidAPIKeyException"
           /\ status = 429 => cls = "RateLimitedException"
           /\ status \notin {400, 401, 403, 429}
              => (cls = "APIException" /\ last.exc.status_code = status)

C26_Witness ==
    /\ last.op = "call_gemini_api"
    /\ last.outs[1] = HTTPError(401)
    /\ last.exc.cls = "InvalidAPIKeyException"

\* The response reached the client with status 200 and lacks the envelope:
\* no candidates, content, parts or inline data, or a body that is not JSON.
MalformedEnvelope(resp) ==
    resp.t = "response" /\ resp.status = 200 /\ resp.body \in {"no_candidates", "bad_json"}

\* The failures of the transport: no connection, a timeout while connecting,
\* a failure of response.read().
TransportFailures == {URLError(reason) : reason \in UrlErrorReasons} \cup {ReadTimeout}

\* C27: the exception an API call raises for a response without the
\* expected envelope is of another class than the exception the same call
\* raises for any failure of the transport.
C27_EnvelopeKindDistinct ==
    (last.op = "call_gemini_api" /\ MalformedEnvelope(last.outs[1]))
    => \A resp \in TransportFailures :
         CallGeminiApi(last.calls[1], resp).exc.cls # last.exc.cls

\* C28: an API call whose connection or whose read of the response timed
\* out raises a TimeoutException.
C28_TimeoutKind ==
    (last.op = "call_gemini_api" /\ last.outs[1] \in {URLError("timed out"), ReadTimeout})
    => IsInstance(last.exc.cls, "TimeoutException")

\* The two requests, each under its configuration, agree on what the key is
\* to depend on: text, model, voice, temperature and processing mode; the
\* style, where style control off counts as no style; and the thinking
\* budget when the mode is unified.
AgreeOnKeyFields(c1, r1, c2, r2) ==
    /\ r1.text = r2.text
    /\ c1.model = c2.model
    /\ c1.voice = c2.voice
    /\ c1.temperature = c2.temperature
    /\ r1.processing_mode = r2.processing_mode
    /\ c1.enable_style_control = c2.enable_style_control
    /\ c1.enable_style_control => c1.preprocessing_style = c2.preprocessing_style
    /\ r1.processing_mode = "unified" => c1.thinking_budget = c2.thinking_budget

\* C29: the key derived for a request equals the key derived for another
\* request, under any configuration, exactly when the two agree on text,
\* model, voice, temperature, processing mode, style (with style control
\* on) and thinking budget (in unified mode); deriving it changes nothing.
C29_SameKeyIffAgree ==
    last.op = "generate_cache_key"
    => /\ \A c2 \in KeyConfigs, r2 \in KeyRequests :
            (last.cache_key = GenerateCacheKey(c2, r2))
            <=> AgreeOnKeyFields(config, last.request, c2, r2)
       /\ metadata = NotLoaded /\ metadata_file = NoIndexFile /\ DOMAIN cache_dir = {}

\* A traditional-mode key under a configuration with a thinking budget and
\* style control off: other budgets and other styles give the same key.
C29_Witness ==
    /\ last.op = "generate_cache_key"
    /\ last.request.processing_mode = "traditional"
    /\ config.thinking_budget = 128
    /\ ~config.enable_style_control
    /\ last.cache_key = GenerateCacheKey([config EXCEPT !.thinking_budget = 0,
                                                        !.preprocessing_style = "technical"],
                                         last.request)

\* The last generate_audio found nothing in the cache and none of its API
\* calls returned audio.
NoAudioProduced ==
    /\ last.op = "generate_audio"
    /\ ~last.result.used_cache
    /\ \A n \in 1..Len(last.outs) : ~ApiSucceeds(last.outs[n])

\* C30: whatever the cache operations and the API calls do (each returns,
\* fails or times out), generate_audio ends after at most two API calls and
\* returns a result, never an exception; when no audio was produced the
\* result has success = false and an error message.
C30_AlwaysReturnsResult ==
    last.op = "generate_audio"
    => /\ Len(last.calls) <= 2
       /\ last.result.success \/ last.result.processing_mode \in Modes
       /\ ~last.result.success => last.result.error_message # << >>
       /\ NoAudioProduced => ~last.result.success

\* Both calls timed out while the cache refused writes.
C30_Witness ==
    /\ NoAudioProduced
    /\ last.request.use_cache
    /\ last.io = "index_write_fails"
    /\ Len(last.calls) = 2
    /\ last.outs[1] = ReadTimeout
    /\ last.outs[2] = URLError("timed out")
    /\ ~last.result.success

\* The last operation changed the index and met no I/O failure: a save, a
\* lookup that hit or purged a stale entry, an expiry or a repair that
\* removed entries, a clear_cache.
MutatedIndex ==
    \/ last.op = "save_audio" /\ last.ret # NoFile
    \/ last.op = "get_cached_file" /\ (last.ret # NoFile \/ StaleMatches # {})
    \/ last.op = "cleanup_expired_files" /\ last.report.count > 0 /\ last.failing = {}
    \/ last.op = "repair_cache" /\ last.report.success /\ last.report.saves > 0
    \/ last.op = "clear_cache" /\ last.io = "ok" /\ last.failing = {}

\* The entry without its access time.
Created(info) == [info EXCEPT !.accessed = 0]

\* C31: after a mutating cache operation that met no I/O failure the index
\* file holds the in-memory index, the entry of a save included; and an
\* index that is in memory is not
\* read again: after an operation it holds only entries it held before
\* (with whatever access time) and the entry the operation created,
\* whatever the index file held.
C31_IndexPersistedNeverReread ==
    /\ MutatedIndex => (metadata.loaded /\ metadata_file = SerializeMetadata(metadata))
    /\ (last.op = "save_audio" /\ last.ret # NoFile)
       => \E i \in 1..Len(metadata.files) : metadata.files[i].filename = last.ret
    /\ (last.op # "other" /\ last.before.metadata.loaded)
       => /\ metadata.loaded
          /\ \A i \in 1..Len(metadata.files) :
               \/ \E j \in 1..Len(last.before.metadata.files) :
                    Created(last.before.metadata.files[j]) = Created(metadata.files[i])
               \/ last.op = "save_audio" /\ metadata.files[i].filename = last.ret

\* An entry went into memory while the index file still held the entries
\* of before a clear_cache whose index write had failed.
C31_Witness ==
    /\ last.op = "save_audio"
    /\ last.ret # NoFile
    /\ last.before.metadata.loaded
    /\ last.before.metadata.files = << >>
    /\ last.before.metadata_file.exists
    /\ last.before.metadata_file.files # << >>
    /\ metadata_file = SerializeMetadata(metadata)

\* C32: an index entry keeps its cache key, its creation time and its
\* recorded size from one state to the next for as long as the index holds
\* an entry of its filename; its access time changes only in a lookup that
\* returns its filename.
C32_EntriesImmutable ==
    [][\A i \in 1..Len(metadata.files), j \in 1..Len(metadata'.files) :
         metadata.files[i].filename = metadata'.files[j].filename
         => /\ metadata'.files[j].cache_key = metadata.files[i].cache_key
            /\ metadata'.files[j].created = metadata.files[i].created
            /\ metadata'.files[j].file_size = metadata.files[i].file_size
            /\ metadata'.files[j].accessed # metadata.files[i].accessed
               => (last'.op = "get_cached_file" /\ last'.ret = metadata.files[i].filename)]_vars

\* No generate_audio call is running on a worker.
AllReturned == \A w \in Workers : threads[w].pc \in {"idle", "done"}

\* C33: once every generate_audio call has returned, the generator's model
\* is the one it was constructed with, also when the calls ran on two
\* workers with overlapping fallback attempts.
C33_ModelRestored ==
    AllReturned => config.model = DefaultConfig.model

\* C34: under concurrent generate_audio calls every index entry carries a
\* key whose model is the model that was called for the bytes stored under
\* the entry's filename.
C34_KeyModelIsCalledModel ==
    \A i \in 1..Len(metadata.files) :
        metadata.files[i].filename \in DOMAIN cache_dir
        => cache_dir[metadata.files[i].filename].src.model_id
              = ModelDefinitions[metadata.files[i].cache_key.model].model_id

\* C35: a request that derives the same cache key as another request, under
\* any configuration, sends the same parameters to the API as the other:
\* the same model, prompt, voice, temperature and thinking budget.
C35_SameKeySameCall ==
    last.op = "generate_cache_key"
    => \A c2 \in KeyConfigs, r2 \in KeyRequests :
         last.cache_key = GenerateCacheKey(c2, r2)
         => GeneratorCall(config, last.request.processing_mode, last.request.text)
              = GeneratorCall(c2, r2.processing_mode, r2.text)

\* C36: get_cached_file(k) returns a filename whenever the index holds an
\* entry with key k whose file is on disk, also when an earlier entry with
\* that key is stale and is purged during the same lookup.
C36_ValidDuplicateFound ==
    (last.op = "get_cached_file" /\ Matches \ StaleMatches # {})
    => /\ last.ret # NoFile
       /\ last.ret \in {PreFiles[i].filename : i \in Matches \ StaleMatches}

\* C37: a save_audio that fails with a cache write error has no partial
\* effect: no temp file, no file under the final name and no entry for that
\* filename in the index, in memory or on disk (for a filename that no file
\* and no entry had before the call).
C37_FailedSaveLeavesNothing ==
    (/\ last.op = "save_audio" /\ last.io # "ok"
     /\ AudioFilename(last.cache_key, now) \notin DOMAIN last.before.cache_dir
     /\ \A i \in 1..Len(PreFiles) : PreFiles[i].filename # AudioFilename(last.cache_key, now))
    => /\ temp_files = NoTempFiles
       /\ AudioFilename(last.cache_key, now) \notin DOMAIN cache_dir
       /\ Gone(AudioFilename(last.cache_key, now))

\* The index as get_metadata() returns it.
IndexNow == GetMetadata(State).metadata.files

\* C38: with no I/O failure, no crash and no outside change, the index and
\* the directory agree after any sequence of save_audio, get_cached_file,
\* cleanup_expired_files, repair_cache and clear_cache: every entry has its
\* file on disk with the recorded size, and every audio file has an entry.
C38_IndexAgreesWithDirectory ==
    /\ \A i \in 1..Len(IndexNow) :
         /\ IndexNow[i].filename \in DOMAIN cache_dir
         /\ cache_dir[IndexNow[i].filename].size = IndexNow[i].file_size
    /\ \A f \in DOMAIN cache_dir : \E i \in 1..Len(IndexNow) : IndexNow[i].filename = f

\* A cleanup removed an expired file and left a newer one.
C38_Witness ==
    /\ last.op = "cleanup_expired_files"
    /\ DOMAIN cache_dir # {}
    /\ DOMAIN cache_dir # DOMAIN last.before.cache_dir

\* The last operation was the first access of a process to an index file
\* that json.load raises on.
FirstAccessUnreadable ==
    /\ last.op \notin {"other", "index_damaged"}
    /\ ~last.before.metadata.loaded
    /\ last.before.metadata_file = TruncatedIndexFile

\* C39: an index file that cannot be parsed on first access makes the store
\* continue with an empty index and raise nothing; no audio file is deleted
\* by this, validate_cache_integrity reports the files indexed before as
\* orphaned, and the next operation that changes the index (save_audio,
\* clear_cache) replaces the unreadable file with the new index.
C39_UnreadableIndexStartsEmpty ==
    /\ FirstAccessUnreadable
       => /\ metadata.loaded
          /\ last.op # "save_audio" => metadata.files = << >>
          /\ last.op # "clear_cache"
             => \A f \in DOMAIN last.before.cache_dir :
                  f \in DOMAIN cache_dir /\ cache_dir[f] = last.before.cache_dir[f]
          /\ last.op = "save_audio"
             => /\ last.ret # NoFile
                /\ Len(metadata.files) = 1
                /\ metadata.files[1].filename = last.ret
                /\ metadata_file = SerializeMetadata(metadata)
          /\ last.op = "clear_cache"
             => last.report.success /\ metadata_file = SerializeMetadata(metadata)
          /\ last.op \in {"validate_cache_integrity", "repair_cache", "cleanup_expired_files"}
             => last.report.success
          /\ last.op = "validate_cache_integrity"
             => last.report.issues
                  = {Issue("Orphaned file", f) : f \in DOMAIN last.before.cache_dir}
    /\ last.op = "index_damaged"
       => \A i \in 1..Len(LoadMetadata(last.before.metadata_file).files) :
            Issue("Orphaned file", LoadMetadata(last.before.metadata_file).files[i].filename)
                \in IssuesNow

\* A save was the first access to an unreadable index, with audio files of
\* the damaged index on disk.
C39_Witness ==
    /\ FirstAccessUnreadable
    /\ last.op = "save_audio"
    /\ DOMAIN last.before.cache_dir # {}
    /\ metadata_file # TruncatedIndexFile

====
